---------------------------- MODULE Spec2Model ----------------------------
(***************************************************************************)
(* ClashRoyaleAR: two peers, each running the fixed-timestep simulation of *)
(* ClashLib (Simulation.py, Clash.py, Menu.py, MultiplayerConection.py),   *)
(* exchanging spawn events over a datagram channel.                        *)
(*                                                                         *)
(* Time.  The code keeps times as floats in seconds.  Here every time is   *)
(* an integer number of units of 1/50 s, so tick_time = 1/25 s is 2 units, *)
(* the event delay 0.2 s is 10 units, a troop's delay 1.0 s is 50 units    *)
(* and seconds_for_one_elixir = 1.5 s is 75 units.  Arithmetic is exact:   *)
(* the rounding of the float accumulation simulation_time += tick_time is  *)
(* not modelled, and "a tick boundary" is a value simulation_time takes.   *)
(* Elixir amounts are kept multiplied by 75 (ElixirScale), so that         *)
(* time_elapsed / seconds_for_one_elixir is an integer.                    *)
(*                                                                         *)
(* Positions are integers in units of 1/1000 cell (PosScale): a cell       *)
(* centre c + 0.5 is 1000 c + 500.  Comparisons of distances are made on   *)
(* the squares and are exact; the one division by math.hypot, in           *)
(* move_towards, rounds the step to the nearest unit.                      *)
(*                                                                         *)
(* Real time `now` starts at the instant the host handles the client's     *)
(* connect request (listen_for_clients); the client's connect_as_peer_     *)
(* client returns replyLeg units later.                                    *)
(*                                                                         *)
(* Three specifications share the variables and the actions:               *)
(*   Spec           two peers playing: each placement is a click on a card *)
(*                  and a click on a free cell of the own half, handled by *)
(*                  one call of handle_inputs; frames, ticks and datagrams *)
(*                  follow in real time;                                   *)
(*   SpecMenu       the clicks one at a time, on the menu and on cells in  *)
(*                  and out of the own half, while real time stands still; *)
(*   SpecPlacement  one board click on any position of the grid or of its  *)
(*                  border, by either player with a card selected.         *)
(***************************************************************************)
EXTENDS Integers, Sequences, FiniteSets, TLC

\* ------------------------------------------------------------- bounds
MaxTime == 14        \* real time runs from 0 to MaxTime units
MaxClickTime == 1    \* clicks happen in the first MaxClickTime units of a game
MaxEvents == 2       \* accepted placements in a run, over both peers
MaxLeg == 1          \* a handshake datagram takes 0, 2, .. 2*MaxLeg units
MaxCardIndex == 0    \* menu clicks select cards 0 .. MaxCardIndex
MaxHostWait == 0     \* the host's main loop starts while now <= MaxHostWait
MaxLate == 2         \* a late datagram takes EventDelay + MaxLate units
Epoch == 100         \* the host's time.time() at real time 0
ClientSkew == 15     \* the client's time.time() minus the host's

\* ---------------------------------------------------------- constants
TickTime == 2        \* Clash.tick_time = 1/25 s
EventDelay == 10     \* delay = 0.2 s of a placement's event
TroopDelay == 50     \* Troop.delay = 1.0 s
ElixirScale == 75    \* seconds_for_one_elixir = 1.5 s; elixir is kept * 75
InitialElixir == 7
MaxElixir == 10
BoardWidth == 18
BoardHeight == 32
Second == 50         \* one second, in the units of time
PosScale == 1000     \* one cell, in the units of position
MaxDuration == 250   \* Projectile.max_duration = 5.0 s

None == "None"
\* an optional value (a Python value or None): <<v>> or <<>>
Nothing == <<>>
Some(v) == <<v>>
The(o) == o[1]
Peers == {"1", "2"}
Host == "1"
Client == "2"
Other(p) == IF p = "1" THEN "2" ELSE "1"

VARIABLES
    now,              \* real time
    requestLeg,       \* latency of the connect request (client -> host)
    replyLeg,         \* latency of the host's reply (host -> client)
    connected,        \* Clash.connected, per peer
    time_offset,      \* P2P.time_offset
    game_start_time,  \* Menu.game_start_time (= Clash.initial_timestamp)
    total_ticks,      \* Clash.total_ticks
    simulation_time,  \* GameTimeline.simulation_time
    events,           \* GameTimeline.events
    entities,         \* Board.entities
    next_entity_id,   \* Entities._next_entity_id of the peer's process
    selected_card,    \* Menu.selected_card
    elixir,           \* Menu.elixir * ElixirScale
    elixir_used,      \* Menu.elixir_used
    elixir_wasted,    \* Menu.elixir_wasted * ElixirScale
    last_update_time, \* Menu.last_update_time
    deck,             \* Menu.deck
    loop_started,     \* the peer's main thread is in Clash.run's loop
    frame_time,       \* real time of the peer's last Clash.update
    network,          \* datagrams in flight
    applied,          \* history: the process_event calls of each peer
    received,         \* history: the on_receive calls of each peer
    last_click,       \* history: a board click's outcome, while it is the last step
    nplaced,          \* history: accepted placements so far
    tries,            \* Clash.try_connection's tries
    exit_code,        \* the status the process left with (sys.exit), if any
    sorting,          \* the items a list.sort of the receiver thread holds
    rollback_system   \* the RollbackSystem of the prototype (prototipes/final.py)

vars == <<now, requestLeg, replyLeg, rollback_system, connected, time_offset, game_start_time,
          total_ticks, simulation_time, events, entities, next_entity_id,
          selected_card, elixir, elixir_used, elixir_wasted, last_update_time,
          deck, loop_started, frame_time, network, applied, received,
          last_click, nplaced, tries, exit_code, sorting>>


\* ------------------------------------- prototype: the rollback system
\* prototipes/final.py, in the time unit of this module (1/50 s).  The
\* statistics (rollback_count, total_events_processed) and real_time, which
\* update_simulation reads once and uses at once, are left out.
StepDuration == 2          \* 1.0 / SIMULATION_FPS: 0.04 s
CheckpointInterval == 5    \* checkpoint_interval: 0.1 s
CheckpointDuration == 200  \* checkpoint_duration: 4.0 s
MaxStepsPerFrame == 10     \* update_simulation: min(10, steps_needed)
CatchUpLag == 5            \* update_simulation: time_diff > 0.1
MoveInterval == 100        \* 1.0 / Tropa.speed: 2.0 s
GridRows == 32             \* GRID_ROWS
SpawnRow == 5              \* the row of event.data["pos"]

\* ClashRoyaleBoard.create_initial_towers: entities 0..5, on their rows
initial_towers ==
    [k \in 1..6 |->
        [entity_id |-> k - 1, kind |-> "torre",
         row |-> << 2, 6, 6, 29, 25, 25 >>[k], move_timer |-> 0]]

\* ClashRoyaleBoard.__init__
ClashRoyaleBoard == [simulation_time |-> 0, entities |-> initial_towers]

\* Checkpoint.__init__: the timestamp and a copy of the state
Checkpoint(timestamp, state) == [timestamp |-> timestamp, state |-> state]

\* RollbackSystem.__init__: the initial state, an empty timeline, and the
\* checkpoint save_checkpoint takes of the initial state
RollbackSystem ==
    [state |-> ClashRoyaleBoard,
     timeline |-> <<>>,
     checkpoints |-> << Checkpoint(0, ClashRoyaleBoard) >>]

\* create_entity_from_event for entity_type "esqueleto" (player 1)
Esqueleto(entity_id) ==
    [entity_id |-> entity_id, kind |-> "esqueleto",
     row |-> SpawnRow, move_timer |-> 0]

\* Torre.update (nothing) and Esqueleto.update: a row further every
\* move_interval
entity_update(e) ==
    IF e.kind = "torre" THEN e
    ELSE IF e.move_timer + StepDuration >= MoveInterval
    THEN [e EXCEPT !.move_timer = 0,
                   !.row = IF @ < GridRows - 1 THEN @ + 1 ELSE @]
    ELSE [e EXCEPT !.move_timer = @ + StepDuration]

\* TimeSimulationLine.add_event: before the first event of a greater
\* timestamp
TimeSimulationLine_add_event(timeline, event) ==
    LET later == {i \in 1..Len(timeline) :
                     event.timestamp < timeline[i].timestamp}
        at == IF later = {} THEN Len(timeline) + 1
              ELSE CHOOSE i \in later : \A j \in later : i <= j
    IN  SubSeq(timeline, 1, at - 1) \o <<event>>
           \o SubSeq(timeline, at, Len(timeline))

\* TimeSimulationLine.get_events_until: the events up to the first one of
\* a timestamp greater than timestamp
get_events_until(timeline, timestamp) ==
    LET later == {i \in 1..Len(timeline) :
                     timeline[i].timestamp > timestamp}
        upto == IF later = {} THEN Len(timeline)
                ELSE (CHOOSE i \in later : \A j \in later : i <= j) - 1
    IN  SubSeq(timeline, 1, upto)

RECURSIVE create_missing(_, _, _)
\* the loop of advance_step over events_to_process, from position k: an
\* entity is created for every event whose entity_id is not on the board
create_missing(ents, evs, k) ==
    IF k > Len(evs) THEN ents
    ELSE create_missing(
            IF \E i \in 1..Len(ents) : ents[i].entity_id = evs[k].entity_id
            THEN ents
            ELSE Append(ents, Esqueleto(evs[k].entity_id)),
            evs, k + 1)

\* the loop of advance_step over the entities: entity.update on each
update_entities(ents) == [k \in 1..Len(ents) |-> entity_update(ents[k])]

\* ClashRoyaleBoard.advance_step: the entities of the events up to
\* next_time that are not on the board yet are created, every entity is
\* updated, and simulation_time becomes next_time
advance_step(state, timeline) ==
    [simulation_time |-> state.simulation_time + StepDuration,
     entities |-> update_entities(
         create_missing(state.entities,
             get_events_until(timeline,
                              state.simulation_time + StepDuration), 1))]

\* RollbackSystem.should_save_checkpoint
should_save_checkpoint(sys) ==
    \/ sys.checkpoints = <<>>
    \/ sys.state.simulation_time
          - sys.checkpoints[Len(sys.checkpoints)].timestamp
             >= CheckpointInterval

\* RollbackSystem.save_checkpoint: the checkpoint appended, and those older
\* than checkpoint_duration dropped
save_checkpoint(sys) ==
    [sys EXCEPT !.checkpoints =
        SelectSeq(Append(@, Checkpoint(sys.state.simulation_time, sys.state)),
                  LAMBDA cp : sys.state.simulation_time - cp.timestamp
                                 <= CheckpointDuration)]

\* RollbackSystem.perform_rollback restoring the newest checkpoint
perform_rollback_newest(sys, target_timestamp) ==
    IF sys.checkpoints = <<>> THEN sys
    ELSE [sys EXCEPT !.state = sys.checkpoints[Len(sys.checkpoints)].state]

\* RollbackSystem.perform_rollback: the first checkpoint of the greatest
\* timestamp <= target_timestamp is restored; none, and the state stays
perform_rollback(sys, target_timestamp) ==
    LET ok == {i \in 1..Len(sys.checkpoints) :
                  sys.checkpoints[i].timestamp <= target_timestamp}
        best == CHOOSE i \in ok : \A j \in ok :
                   \/ sys.checkpoints[j].timestamp < sys.checkpoints[i].timestamp
                   \/ (sys.checkpoints[j].timestamp = sys.checkpoints[i].timestamp
                       /\ i <= j)
    IN  IF ok = {} THEN sys
        ELSE [sys EXCEPT !.state = sys.checkpoints[best].state]

\* RollbackSystem.add_event
RollbackSystem_add_event(sys, event) ==
    LET added == [sys EXCEPT !.timeline =
                     TimeSimulationLine_add_event(@, event)]
    IN  IF event.timestamp < sys.state.simulation_time
        THEN perform_rollback(added, event.timestamp)
        ELSE added

\* self.state.advance_step(self.timeline, self.step_duration)
step_once(sys) == [sys EXCEPT !.state = advance_step(@, sys.timeline)]

\* if self.should_save_checkpoint(): self.save_checkpoint()
checkpoint_if_due(sys) ==
    IF should_save_checkpoint(sys) THEN save_checkpoint(sys) ELSE sys

\* one pass of the loop of update_simulation: a step if the simulation is
\* behind real_time, and a checkpoint after it if one is due
simulation_step(sys, real_time) ==
    IF sys.state.simulation_time < real_time
    THEN checkpoint_if_due(step_once(sys))
    ELSE sys

RECURSIVE simulation_steps(_, _, _)
\* the loop of update_simulation, n passes: each pass works on the system
\* as the pass before left it
simulation_steps(sys, real_time, n) ==
    IF n = 0 THEN sys
    ELSE CHOOSE done \in {simulation_steps(next, real_time, n - 1) :
                             next \in {simulation_step(sys, real_time)}} : TRUE

\* RollbackSystem.update_simulation at the real time real_time
update_simulation(sys, real_time) ==
    LET time_diff == real_time - sys.state.simulation_time
        steps_needed == time_diff \div StepDuration
        steps_this_frame ==
            IF time_diff > CatchUpLag
            THEN IF steps_needed < MaxStepsPerFrame THEN steps_needed
                 ELSE MaxStepsPerFrame
            ELSE 1
    IN  IF time_diff > 0
        THEN simulation_steps(sys, real_time, steps_this_frame)
        ELSE sys

\* --------------------------------------------------- Board: geometry
\* Board.setup_obstacles: the river rows minus the bridges, and the six
\* tower footprints, as (columna, fila)
setup_obstacles ==
    {<<columna, fila>> : columna \in {c \in 0..17 :
                              ~((c >= 2 /\ c <= 4) \/ (c >= 13 /\ c <= 15))},
                         fila \in 15..16}
    \cup ((7..10) \X (1..4))
    \cup ((2..4) \X (5..7))
    \cup ((13..15) \X (5..7))
    \cup ((7..10) \X (27..30))
    \cup ((2..4) \X (24..26))
    \cup ((13..15) \X (24..26))

\* Board.is_my_area with a wrong upper row for player 1
is_my_area_row16(player_id, grid_position) ==
    LET fila == grid_position[2] IN
    IF player_id = "1" THEN 0 <= fila /\ fila <= 16
    ELSE IF player_id = "2" THEN 16 <= fila /\ fila < 32
    ELSE FALSE

\* Board.is_my_area, of the board whose player_id is given
is_my_area(player_id, grid_position) ==
    LET fila == grid_position[2] IN
    IF player_id = "1" THEN 0 <= fila /\ fila < 16
    ELSE IF player_id = "2" THEN 16 <= fila /\ fila < 32
    ELSE FALSE

\* Board.is_valid_placement
is_valid_placement(grid_position) ==
    LET columna == grid_position[1]
        fila == grid_position[2] IN
    IF columna < 0 \/ columna >= BoardWidth \/ fila < 0 \/ fila >= BoardHeight
    THEN FALSE
    ELSE IF <<columna, fila>> \in setup_obstacles THEN FALSE
    ELSE TRUE

\* ----------------------------------------------------------- entities
\* floor of the square root (math.hypot on whole units)
RECURSIVE SqrtFrom(_, _)
SqrtFrom(n, r) ==
    LET s == (r + n \div r) \div 2 IN
    IF s >= r THEN r ELSE SqrtFrom(n, s)

\* math.hypot, rounded down to a whole unit
hypot(dx, dy) ==
    LET n == dx * dx + dy * dy IN
    IF n = 0 THEN 0 ELSE SqrtFrom(n, n)

\* a / b for b > 0, rounded to the nearest whole unit
RoundDiv(a, b) == (2 * a + b) \div (2 * b)

\* Entity.__init__ adds 0.5 to the coordinates it is given (cell_x, cell_y
\* in units of 1/PosScale cell).  The fields are those of Entity, Tower,
\* Troop, Projectile and AreaProjectile together; target holds the
\* entity_id of the object self.target refers to, and target_at the
\* position of that object once the board has dropped it from its list.
Entity(id, type, kind, owner, cell_x, cell_y, life, delay) ==
    [entity_id |-> id, type |-> type, kind |-> kind, owner |-> owner,
     x |-> cell_x + PosScale \div 2, y |-> cell_y + PosScale \div 2,
     life |-> life, max_life |-> life,
     damage |-> 0, speed |-> 0,
     cooldown |-> 0, delay |-> delay, state |-> "idle",
     target |-> Nothing, target_at |-> Nothing, active |-> TRUE,
     elapsed_time |-> 0, reached_target |-> FALSE, target_pos |-> Nothing,
     troops_hit |-> <<>>]

\* Tower.__init__
Tower(id, cell_x, cell_y, owner, tower_type) ==
    [Entity(id, "tower", tower_type, owner, cell_x, cell_y,
            IF tower_type = "central" THEN 4824 ELSE 3052, 0)
        EXCEPT !.damage = 109]

TroopLife(entity_type) ==
    CASE entity_type = "Caballero" -> 1766
      [] entity_type = "Mago" -> 755
      [] entity_type = "Mosquetera" -> 721

\* Caballero.__init__, Mago.__init__, Mosquetera.__init__: damage
TroopDamage(entity_type) ==
    CASE entity_type = "Caballero" -> 202
      [] entity_type = "Mago" -> 281
      [] entity_type = "Mosquetera" -> 217

TroopKinds == {"Caballero", "Mago", "Mosquetera"}

\* Troop.__init__ through the constructor of the troop's class
Troop(id, entity_type, cell_x, cell_y, owner) ==
    [Entity(id, "troop", entity_type, owner, cell_x, cell_y,
            TroopLife(entity_type), TroopDelay)
        EXCEPT !.damage = TroopDamage(entity_type), !.speed = 1]

\* Projectile.__init__ / AreaProjectile.__init__ (kind), aimed at the
\* entity target
Projectile(id, kind, cell_x, cell_y, owner, speed, target, damage) ==
    [Entity(id, "projectile", kind, owner, cell_x, cell_y, 0, 0)
        EXCEPT !.speed = speed, !.damage = damage,
               !.target = Some(target.entity_id),
               !.target_pos = Some(<<target.x, target.y>>)]

\* Board.setup_towers: ids 1..6 from get_next_id, in construction order
setup_towers ==
    << Tower(1, 8500, 2500, "1", "central"),
       Tower(2, 3000, 6000, "1", "lateral"),
       Tower(3, 14000, 6000, "1", "lateral"),
       Tower(4, 8500, 28500, "2", "central"),
       Tower(5, 3000, 25000, "2", "lateral"),
       Tower(6, 14000, 25000, "2", "lateral") >>

\* Board.create_entity_by_type building a Caballero for any other name
create_entity_by_type_default(id, entity_type, position, player_id) ==
    Some(Troop(id, IF entity_type \in TroopKinds THEN entity_type ELSE "Caballero",
               PosScale * position[1], PosScale * position[2], player_id))

\* Board.create_entity_by_type: a troop at the cell, or None (Nothing)
create_entity_by_type(id, entity_type, position, player_id) ==
    IF entity_type \in TroopKinds
    THEN Some(Troop(id, entity_type, PosScale * position[1],
                    PosScale * position[2], player_id))
    ELSE Nothing

\* ------------------------------------------------- Board.update
\* squared distance between two entities (math.hypot, squared)
Dist2(a, b) == (a.x - b.x) * (a.x - b.x) + (a.y - b.y) * (a.y - b.y)

\* squared distance between an entity and a point (distance_to_point)
DistPoint2(a, pt) ==
    (a.x - pt[1]) * (a.x - pt[1]) + (a.y - pt[2]) * (a.y - pt[2])

\* Tower.size
TowerSize(t) == IF t.kind = "central" THEN 4 * PosScale ELSE 3 * PosScale

\* Tower.hit_speed, Troop.hit_speed
hit_speed(e) ==
    CASE e.kind = "central" -> Second
      [] e.kind = "lateral" -> (4 * Second) \div 5
      [] e.kind = "Caballero" -> (6 * Second) \div 5
      [] e.kind = "Mosquetera" -> Second
      [] e.kind = "Mago" -> (7 * Second) \div 5

\* Troop.range
troop_range(e) ==
    CASE e.kind = "Caballero" -> PosScale
      [] e.kind = "Mosquetera" -> 6 * PosScale
      [] e.kind = "Mago" -> (11 * PosScale) \div 2

\* speed * tick_time: the distance a troop or a projectile tries per tick
try_dist(e) == (e.speed * PosScale * TickTime) \div Second

\* Tower.in_range: distance_to(target) <= attack_range, where distance_to
\* subtracts size/2 and attack_range = 7.5 + size/2; squared
tower_in_range(t, e) ==
    LET reach == (15 * PosScale) \div 2 + TowerSize(t) IN
    Dist2(t, e) <= reach * reach

\* Troop.in_range: a tower's distance_to subtracts its size/2; squared
troop_in_range(e, target) ==
    LET reach == IF target.type = "tower"
                 THEN troop_range(e) + TowerSize(target) \div 2
                 ELSE troop_range(e) IN
    Dist2(e, target) <= reach * reach

\* Tower.can_i_attack
can_i_attack(t, ents) ==
    IF t.kind # "central" THEN TRUE
    ELSE IF t.life < t.max_life THEN TRUE
    ELSE \E i \in 1..Len(ents) :
            /\ ents[i].owner = t.owner
            /\ ents[i].type = "tower"
            /\ ents[i].kind # "central"
            /\ ents[i].life <= 0

\* the position in the list of the object e.target refers to, or 0 when
\* the board has dropped it
TargetIndex(e, ents) ==
    LET idx == {i \in 1..Len(ents) : ents[i].entity_id = The(e.target)} IN
    IF idx = {} THEN 0 ELSE CHOOSE i \in idx : TRUE

\* self.target.life > 0: a dropped tower or troop has life <= 0
target_alive(e, ents) ==
    TargetIndex(e, ents) # 0 /\ ents[TargetIndex(e, ents)].life > 0

\* self.target.active
target_active(e, ents) ==
    TargetIndex(e, ents) # 0 /\ ents[TargetIndex(e, ents)].active

\* (self.target.x, self.target.y)
target_position(e, ents) ==
    IF TargetIndex(e, ents) # 0
    THEN <<ents[TargetIndex(e, ents)].x, ents[TargetIndex(e, ents)].y>>
    ELSE The(e.target_at)

\* the entities a tower or a troop may aim at
Hostile(e, ents) ==
    {i \in 1..Len(ents) :
        /\ ents[i].owner # e.owner
        /\ ents[i].active
        /\ ents[i].type \in {"troop", "tower"}}

\* of the candidates, the last of the nearest in list order
Nearest_last(e, ents, cand) ==
    CHOOSE i \in cand : \A j \in cand :
        \/ Dist2(e, ents[j]) > Dist2(e, ents[i])
        \/ (Dist2(e, ents[j]) = Dist2(e, ents[i]) /\ j <= i)

\* of the candidates, the first in ascending distance from e (ties in list
\* order: sorted is stable)
Nearest(e, ents, cand) ==
    CHOOSE i \in cand : \A j \in cand :
        \/ Dist2(e, ents[j]) > Dist2(e, ents[i])
        \/ (Dist2(e, ents[j]) = Dist2(e, ents[i]) /\ j >= i)

\* Tower.look_for_target, called in state Idle with no target: the first
\* entity, in ascending distance, that is hostile, active, a troop or a
\* tower, and in range; None when there is none.  The nearest candidate is
\* in range whenever any candidate is, so the candidates out of range are
\* left out before the nearest is looked for.
tower_look_for_target(t, ents) ==
    LET cand == {i \in Hostile(t, ents) : tower_in_range(t, ents[i])} IN
    IF cand # {}
    THEN Some(ents[Nearest(t, ents, cand)].entity_id)
    ELSE Nothing

\* Tower.update ignoring can_i_attack
TowerUpdate_always_eligible(t, ents) ==
    IF t.life <= 0 THEN [t EXCEPT !.active = FALSE]
    ELSE LET keep == /\ t.target # Nothing
                     /\ target_alive(t, ents)
                     /\ tower_in_range(t, ents[TargetIndex(t, ents)])
         IN  IF keep THEN [t EXCEPT !.state = "attacking"]
             ELSE [t EXCEPT !.state = "idle", !.target_at = Nothing,
                            !.target = tower_look_for_target(t, ents)]

\* Tower.update
TowerUpdate(t, ents) ==
    IF t.life <= 0 THEN [t EXCEPT !.active = FALSE]
    ELSE IF ~can_i_attack(t, ents)
    THEN [t EXCEPT !.state = "idle", !.cooldown = 0, !.target = Nothing,
                   !.target_at = Nothing]
    ELSE LET keep == /\ t.target # Nothing
                     /\ target_alive(t, ents)
                     /\ tower_in_range(t, ents[TargetIndex(t, ents)])
         IN  IF keep THEN [t EXCEPT !.state = "attacking"]
             ELSE [t EXCEPT !.state = "idle", !.target_at = Nothing,
                            !.target = tower_look_for_target(t, ents)]

\* Troop.look_for_target: the nearest hostile active troop or tower, at any
\* distance; the target stays when the troop is Attacking or finds none
troop_look_for_target(e, ents) ==
    IF e.state = "attacking" THEN e
    ELSE IF Hostile(e, ents) = {} THEN e
    ELSE LET found == ents[Nearest(e, ents, Hostile(e, ents))].entity_id IN
         IF e.target = Some(found) THEN e
         ELSE [e EXCEPT !.target = Some(found), !.target_at = Nothing]

\* Troop.update leaving the delay window a tick early
TroopUpdate_short_delay(e, ents) ==
    IF e.life <= 0 THEN [e EXCEPT !.active = FALSE]
    ELSE IF e.delay > TickTime
    THEN [e EXCEPT !.state = "idle", !.cooldown = 0, !.delay = @ - TickTime]
    ELSE LET attacking == /\ e.target # Nothing
                          /\ TargetIndex(e, ents) # 0
                          /\ troop_in_range(e, ents[TargetIndex(e, ents)])
                          /\ target_alive(e, ents)
             lost == /\ e.target # Nothing
                     /\ (~target_alive(e, ents) \/ ~target_active(e, ents))
             e1 == IF lost
                   THEN [e EXCEPT !.state = "moving", !.target = Nothing,
                                  !.target_at = Nothing]
                   ELSE [e EXCEPT !.state = IF attacking THEN "attacking"
                                            ELSE "moving"]
         IN  troop_look_for_target(e1, ents)

\* Troop.update attacking a living target at any distance
TroopUpdate_any_distance(e, ents) ==
    IF e.life <= 0 THEN [e EXCEPT !.active = FALSE]
    ELSE IF e.delay > 0
    THEN [e EXCEPT !.state = "idle", !.cooldown = 0, !.delay = @ - TickTime]
    ELSE LET attacking == /\ e.target # Nothing
                          /\ TargetIndex(e, ents) # 0
                          /\ target_alive(e, ents)
             lost == /\ e.target # Nothing
                     /\ (~target_alive(e, ents) \/ ~target_active(e, ents))
             e1 == IF lost
                   THEN [e EXCEPT !.state = "moving", !.target = Nothing,
                                  !.target_at = Nothing]
                   ELSE [e EXCEPT !.state = IF attacking THEN "attacking"
                                            ELSE "moving"]
         IN  troop_look_for_target(e1, ents)

\* Troop.update
TroopUpdate(e, ents) ==
    IF e.life <= 0 THEN [e EXCEPT !.active = FALSE]
    ELSE IF e.delay > 0
    THEN [e EXCEPT !.state = "idle", !.cooldown = 0, !.delay = @ - TickTime]
    ELSE LET attacking == /\ e.target # Nothing
                          /\ TargetIndex(e, ents) # 0
                          /\ troop_in_range(e, ents[TargetIndex(e, ents)])
                          /\ target_alive(e, ents)
             lost == /\ e.target # Nothing
                     /\ (~target_alive(e, ents) \/ ~target_active(e, ents))
             e1 == IF lost
                   THEN [e EXCEPT !.state = "moving", !.target = Nothing,
                                  !.target_at = Nothing]
                   ELSE [e EXCEPT !.state = IF attacking THEN "attacking"
                                            ELSE "moving"]
         IN  troop_look_for_target(e1, ents)

\* Projectile.update carrying the projectile to its target
ProjectileUpdate_jump(e, ents) ==
    IF e.target # Nothing
    THEN [e EXCEPT !.target_pos = Some(target_position(e, ents)),
                   !.x = target_position(e, ents)[1],
                   !.y = target_position(e, ents)[2]]
    ELSE e

\* Projectile.update: the cached position follows the target
ProjectileUpdate(e, ents) ==
    IF e.target # Nothing
    THEN [e EXCEPT !.target_pos = Some(target_position(e, ents))]
    ELSE e

\* AreaProjectile.update: within radius 1.5 of its target, it collects the
\* hostile active troops and towers within the radius of itself
AreaProjectileUpdate(e, ents) ==
    LET radius == (3 * PosScale) \div 2
        tp == target_position(e, ents)
        near == DistPoint2(e, tp) < radius * radius
        hit(i) == /\ i \in Hostile(e, ents)
                  /\ Dist2(ents[i], e) <= radius * radius
                  /\ \A k \in 1..Len(e.troops_hit) :
                         e.troops_hit[k] # ents[i].entity_id
        found == SelectSeq([i \in 1..Len(ents) |-> i], hit)
    IN  IF near
        THEN [e EXCEPT !.troops_hit =
                 @ \o [k \in 1..Len(found) |-> ents[found[k]].entity_id]]
        ELSE e

\* Entity.update, by class
EntityUpdate(e, ents) ==
    CASE e.type = "tower" -> TowerUpdate(e, ents)
      [] e.type = "troop" -> TroopUpdate(e, ents)
      [] e.kind = "Projectile" -> ProjectileUpdate(e, ents)
      [] e.kind = "AreaProjectile" -> AreaProjectileUpdate(e, ents)

RECURSIVE UpdatePass(_, _)
\* Board.update, first loop: entity.update on entities i, i+1, ..., each
\* seeing the list as the earlier updates left it
UpdatePass(ents, i) ==
    IF i > Len(ents) THEN ents
    ELSE UpdatePass([ents EXCEPT ![i] = EntityUpdate(ents[i], ents)], i + 1)

\* Tower.receive_damage / Troop.receive_damage keeping a dead entity active
receive_damage_stay_active(e, amount) ==
    [e EXCEPT !.life = @ - amount]

\* Tower.receive_damage / Troop.receive_damage
receive_damage(e, amount) ==
    [e EXCEPT !.life = @ - amount,
              !.active = IF e.life - amount <= 0 THEN FALSE ELSE @]

\* receive_damage on the entity at position k of the list
Damage(ents, k, amount) ==
    [ents EXCEPT ![k] = receive_damage(ents[k], amount)]

\* the step of move_towards: (dx, dy) scaled to length dist, each
\* coordinate rounded to the nearest unit
Step(dx, dy, dist) ==
    LET max_dist == hypot(dx, dy) IN
    IF dist * dist >= dx * dx + dy * dy THEN <<dx, dy>>
    ELSE <<RoundDiv(dx * dist, max_dist), RoundDiv(dy * dist, max_dist)>>

\* Troop.get_valid_waypoints not looking at the obstacles
get_valid_waypoints_any_cell(e) ==
    LET cx == e.x \div PosScale
        cy == e.y \div PosScale
        nb == << <<-1, -1>>, <<-1, 0>>, <<-1, 1>>, <<0, -1>>,
                 <<0, 1>>, <<1, -1>>, <<1, 0>>, <<1, 1>> >>
        cells == [k \in 1..8 |-> <<cx + nb[k][1], cy + nb[k][2]>>]
        free(c) == /\ 0 <= c[1] /\ c[1] < BoardWidth
                   /\ 0 <= c[2] /\ c[2] < BoardHeight
        valid == SelectSeq(cells, free)
    IN  [k \in 1..Len(valid) |-> <<valid[k][1] * PosScale + PosScale \div 2,
                                   valid[k][2] * PosScale + PosScale \div 2>>]

\* Troop.get_valid_waypoints: the centres of the neighbouring cells that are
\* on the map and free, in the order of the two loops
get_valid_waypoints(e) ==
    LET cx == e.x \div PosScale
        cy == e.y \div PosScale
        nb == << <<-1, -1>>, <<-1, 0>>, <<-1, 1>>, <<0, -1>>,
                 <<0, 1>>, <<1, -1>>, <<1, 0>>, <<1, 1>> >>
        cells == [k \in 1..8 |-> <<cx + nb[k][1], cy + nb[k][2]>>]
        free(c) == /\ 0 <= c[1] /\ c[1] < BoardWidth
                   /\ 0 <= c[2] /\ c[2] < BoardHeight
                   /\ c \notin setup_obstacles
        valid == SelectSeq(cells, free)
    IN  [k \in 1..Len(valid) |-> <<valid[k][1] * PosScale + PosScale \div 2,
                                   valid[k][2] * PosScale + PosScale \div 2>>]

\* the loop of Troop.get_target_waypoint over the waypoints wps: the first
\* at the least distance from the target, or None when there is none
nearest_waypoint(wps, target) ==
    IF wps = <<>> THEN Nothing
    ELSE Some(wps[CHOOSE k \in 1..Len(wps) : \A j \in 1..Len(wps) :
                  \/ DistPoint2(target, wps[j]) > DistPoint2(target, wps[k])
                  \/ (DistPoint2(target, wps[j]) = DistPoint2(target, wps[k])
                      /\ j >= k)])

\* Troop.get_target_waypoint: the first valid waypoint at the least
\* distance from the target target, or None
get_target_waypoint(e, target) ==
    nearest_waypoint(get_valid_waypoints(e), target)

\* self.x += ..., self.y += ... of move_towards, s being the step
Shift(e, s) == [e EXCEPT !.x = @ + s[1], !.y = @ + s[2]]

\* Troop.move_towards once the waypoint wp is chosen
move_to_waypoint(e, wp) ==
    IF wp = Nothing THEN e
    ELSE Shift(e, Step(The(wp)[1] - e.x, The(wp)[2] - e.y, try_dist(e)))

\* Troop.move_towards, target being the object self.target refers to
troop_move_towards(e, target) ==
    move_to_waypoint(e, get_target_waypoint(e, target))

\* Projectile.move_towards
projectile_move_towards(e) ==
    LET dx == The(e.target_pos)[1] - e.x
        dy == The(e.target_pos)[2] - e.y
        reached == try_dist(e) * try_dist(e) >= dx * dx + dy * dy
    IN  [Shift(e, Step(dx, dy, try_dist(e)))
            EXCEPT !.reached_target = reached \/ @]

\* Projectile.execute and AreaProjectile.execute never expiring
over_max_duration_never(elapsed_time) == FALSE

\* elapsed_time > max_duration, elapsed_time being the sum of n doubles
\* 0.04 and max_duration 5.0: the sum first exceeds 5.0 at n = 125, where
\* it is 5.0000000000000036
over_max_duration(elapsed_time) ==
    elapsed_time >= MaxDuration

\* math.hypot(dx, dy) < 0.05 or self.reached_target, after move_towards
arrived(e) ==
    \/ DistPoint2(e, The(e.target_pos))
         < (PosScale \div 20) * (PosScale \div 20)
    \/ e.reached_target

\* The execute loop works on st = [ents, new_entities, nid]: the list, the
\* entities add_new_entity has collected, and _next_entity_id.

\* Tower.execute with Tower.attack, of the entity at position i
TowerExecute(i, st) ==
    LET t == st.ents[i]
        cooldown == t.cooldown - TickTime
    IN  IF t.target # Nothing /\ cooldown <= 0 /\ target_alive(t, st.ents)
        THEN [ents |-> [st.ents EXCEPT ![i].cooldown = hit_speed(t)],
              new_entities |-> Append(st.new_entities,
                  Projectile(st.nid + 1, "Projectile", t.x, t.y, t.owner, 5,
                             st.ents[TargetIndex(t, st.ents)], t.damage)),
              nid |-> st.nid + 1]
        ELSE [st EXCEPT !.ents[i].cooldown = cooldown]

\* Caballero.attack, Mosquetera.attack, Mago.attack of the entity at
\* position i on the entity at position k
TroopAttack(i, k, st) ==
    LET e == st.ents[i]
        target == st.ents[k]
    IN  CASE e.kind = "Caballero" ->
               IF target.life > 0
               THEN [st EXCEPT !.ents = Damage(@, k, e.damage)]
               ELSE st
          [] e.kind = "Mosquetera" ->
               [st EXCEPT !.new_entities = Append(@,
                    Projectile(st.nid + 1, "Projectile", e.x, e.y, e.owner,
                               15, target, e.damage)),
                          !.nid = @ + 1]
          [] e.kind = "Mago" ->
               [st EXCEPT !.new_entities = Append(@,
                    Projectile(st.nid + 1, "AreaProjectile", e.x, e.y,
                               e.owner, 10, target, e.damage)),
                          !.nid = @ + 1]

\* Troop.execute attacking on every tick spent Attacking
TroopExecute_every_tick(i, st) ==
    IF st.ents[i].state = "attacking"
    THEN [TroopAttack(i, TargetIndex(st.ents[i], st.ents), st)
             EXCEPT !.ents[i].cooldown = hit_speed(st.ents[i])]
    ELSE IF st.ents[i].state = "moving" /\ st.ents[i].target # Nothing
    THEN [st EXCEPT !.ents[i] =
             troop_move_towards(@, st.ents[TargetIndex(st.ents[i], st.ents)])]
    ELSE st

\* Troop.execute of the entity at position i.  A troop is Attacking only
\* when its update found its target in the list.
TroopExecute(i, st) ==
    LET e == st.ents[i] IN
    IF e.state = "attacking"
    THEN IF e.cooldown - TickTime <= 0
         THEN LET attacked == TroopAttack(i, TargetIndex(e, st.ents), st) IN
              [attacked EXCEPT !.ents[i].cooldown = hit_speed(e)]
         ELSE [st EXCEPT !.ents[i].cooldown = @ - TickTime]
    ELSE IF e.state = "moving" /\ e.target # Nothing
    THEN [st EXCEPT !.ents[i] =
             troop_move_towards(@, st.ents[TargetIndex(e, st.ents)])]
    ELSE st

\* Projectile.execute of the entity at position i
ProjectileExecute(i, st) ==
    LET e == st.ents[i] IN
    IF ~e.active THEN st
    ELSE LET moved == [projectile_move_towards(e)
                          EXCEPT !.elapsed_time = @ + TickTime]
             hits == /\ arrived(moved)
                     /\ e.target # Nothing
                     /\ target_active(e, st.ents)
             expired == over_max_duration(moved.elapsed_time)
             after == IF hits
                      THEN Damage(st.ents, TargetIndex(e, st.ents), e.damage)
                      ELSE st.ents
         IN  [st EXCEPT !.ents = [after EXCEPT ![i] =
                 [moved EXCEPT !.active = ~(hits \/ expired)]]]

RECURSIVE DamageEach(_, _, _, _)
\* AreaProjectile.execute's loop over troops_hit
DamageEach(ents, troops_hit, k, amount) ==
    IF k > Len(troops_hit) THEN ents
    ELSE LET idx == {j \in 1..Len(ents) : ents[j].entity_id = troops_hit[k]}
             j == CHOOSE j \in idx : TRUE
         IN  DamageEach(IF idx # {} /\ ents[j].active
                        THEN Damage(ents, j, amount) ELSE ents,
                        troops_hit, k + 1, amount)

\* AreaProjectile.execute of the entity at position i
AreaProjectileExecute(i, st) ==
    LET e == st.ents[i] IN
    IF ~e.active THEN st
    ELSE LET moved == [projectile_move_towards(e)
                          EXCEPT !.elapsed_time = @ + TickTime]
             hits == arrived(moved)
             expired == over_max_duration(moved.elapsed_time)
             after == IF hits
                      THEN DamageEach(st.ents, e.troops_hit, 1, e.damage)
                      ELSE st.ents
         IN  [st EXCEPT !.ents = [after EXCEPT ![i] =
                 [moved EXCEPT !.active = ~(hits \/ expired)]]]

\* entity.execute, by class
EntityExecute(i, st) ==
    CASE st.ents[i].type = "tower" -> TowerExecute(i, st)
      [] st.ents[i].type = "troop" -> TroopExecute(i, st)
      [] st.ents[i].kind = "Projectile" -> ProjectileExecute(i, st)
      [] st.ents[i].kind = "AreaProjectile" -> AreaProjectileExecute(i, st)

RECURSIVE ExecutePass(_, _)
\* Board.update, second loop: entity.execute on entities i, i+1, ..., each
\* seeing what the earlier ones did
ExecutePass(i, st) ==
    IF i > Len(st.ents) THEN st
    ELSE ExecutePass(i + 1, EntityExecute(i, st))

\* the references to an object the board drops keep the object: target_at
\* records where it lay
Dropped(e, executed) ==
    IF e.target # Nothing /\ e.target_at = Nothing
       /\ TargetIndex(e, executed) # 0
       /\ ~executed[TargetIndex(e, executed)].active
    THEN [e EXCEPT !.target_at = Some(target_position(e, executed))]
    ELSE e

\* Board.update after its two loops: the inactive entities dropped, the
\* new entities appended
Reap(st) ==
    LET kept == SelectSeq(st.ents, LAMBDA e : e.active) \o st.new_entities
    IN  [ents |-> [k \in 1..Len(kept) |-> Dropped(kept[k], st.ents)],
         nid |-> st.nid]

\* Board.update on the list and _next_entity_id: the update loop, the
\* execute loop, the inactive entities dropped, the new entities appended
BoardUpdate(ents, nid) ==
    Reap(ExecutePass(1, [ents |-> UpdatePass(ents, 1),
                         new_entities |-> <<>>, nid |-> nid]))

\* Board.towers after Board.update
TowersOf(ents) == SelectSeq(ents, LAMBDA e : e.type = "tower")

\* Board.win_condition preferring the win
win_condition_win_first(player_id, ents) ==
    LET my_towers == SelectSeq(TowersOf(ents), LAMBDA t : t.owner = player_id)
        opponent_towers == SelectSeq(TowersOf(ents), LAMBDA t : t.owner # player_id)
    IN  IF opponent_towers = <<>> THEN "win"
        ELSE IF my_towers = <<>> THEN "lose"
        ELSE "continue"

\* Board.win_condition, of the board whose player_id is given
win_condition(player_id, ents) ==
    LET my_towers == SelectSeq(TowersOf(ents), LAMBDA t : t.owner = player_id)
        opponent_towers == SelectSeq(TowersOf(ents), LAMBDA t : t.owner # player_id)
    IN  IF my_towers = <<>> THEN "lose"
        ELSE IF opponent_towers = <<>> THEN "win"
        ELSE "continue"

\* ------------------------------------------------ Event, GameTimeline
\* Event.__init__ (with the data payload handle_board_click passes); uid is
\* the identity of the placement (the Python object on the sender, its
\* copy on the receiver), kept for the history variables only
Event(event_type, timestamp, delay, data, uid) ==
    [event_type |-> event_type, timestamp |-> timestamp, delay |-> delay,
     aparition_time |-> timestamp + delay, data |-> data, uid |-> uid]

\* Event.to_json: the event-json of the game datagram
to_json(event) ==
    [event_type |-> event.event_type, timestamp |-> event.timestamp,
     delay |-> event.delay, data |-> event.data, uid |-> event.uid]

\* Event.from_json: the event rebuilt by Event.__init__ from the event-json
from_json(json) ==
    Event(json.event_type, json.timestamp, json.delay, json.data, json.uid)

\* GameTimeline.get_events_in_range without its lower bound
events_up_to(evs, start_time, end_time) ==
    SelectSeq(evs, LAMBDA e : e.aparition_time <= end_time)

\* GameTimeline.get_events_in_range
get_events_in_range(evs, start_time, end_time) ==
    SelectSeq(evs, LAMBDA e : start_time <= e.aparition_time
                              /\ e.aparition_time <= end_time)

\* GameTimeline.add_event: append, then a stable sort by aparition_time of
\* a list that was sorted before the append
add_event(evs, event) ==
    SelectSeq(evs, LAMBDA e : e.aparition_time <= event.aparition_time)
    \o <<event>>
    \o SelectSeq(evs, LAMBDA e : e.aparition_time > event.aparition_time)

\* ClashSimulation.process_event numbering the new entity from the wall clock
process_event_clock_id(event, st) ==
    IF event.event_type = "spawn_unit"
    THEN LET entity == create_entity_by_type(st.nid + 1 + now,
                           event.data.entity_type,
                           event.data.grid_position, event.data.player_id)
         IN  IF entity # Nothing
             THEN [st EXCEPT !.ents = Append(@, The(entity)),
                             !.nid = @ + 1,
                             !.log = Append(@, [tick |-> st.ticks,
                                                uid |-> event.uid,
                                                cell |-> event.data.grid_position,
                                                entity_id |-> st.nid + 1 + now])]
             ELSE st
    ELSE st

\* ClashSimulation.process_event with Board.add_entity, on the state
\* st = [ents, nid, sim, ticks, log] of one peer's simulation
process_event(event, st) ==
    IF event.event_type = "spawn_unit"
    THEN LET entity == create_entity_by_type(st.nid + 1, event.data.entity_type,
                           event.data.grid_position, event.data.player_id)
         IN  IF entity # Nothing
             THEN [st EXCEPT !.ents = Append(@, The(entity)),
                             !.nid = @ + 1,
                             !.log = Append(@, [tick |-> st.ticks,
                                                uid |-> event.uid,
                                                cell |-> event.data.grid_position,
                                                entity_id |-> st.nid + 1])]
             ELSE st
    ELSE st

RECURSIVE ProcessEvents(_, _, _)
\* execute_tick's loop over current_events
ProcessEvents(cur, i, st) ==
    IF i > Len(cur) THEN st
    ELSE ProcessEvents(cur, i + 1, process_event(cur[i], st))

\* self.board.update(tick_time): the board and its _next_entity_id after
\* Board.update
with_board(st, board) ==
    [st EXCEPT !.ents = board.ents, !.nid = board.nid]

\* GameTimeline.execute_tick increasing simulation_time before the board
\* update and the range query
execute_tick_time_first(evs, st) ==
    ProcessEvents(get_events_in_range(evs, st.sim + TickTime,
                                      st.sim + TickTime + TickTime),
                  1,
                  with_board([st EXCEPT !.sim = @ + TickTime],
                             BoardUpdate(st.ents, st.nid)))

\* GameTimeline.execute_tick
execute_tick(evs, st) ==
    LET updated == with_board(st, BoardUpdate(st.ents, st.nid))
        current_events == get_events_in_range(evs, st.sim, st.sim + TickTime)
        processed == ProcessEvents(current_events, 1, updated)
    IN  [processed EXCEPT !.sim = @ + TickTime]

\* Clash.update executing at most one tick per frame
RunTicks_one_per_frame(evs, st, n) ==
    IF n <= 0 THEN st
    ELSE [execute_tick(evs, st) EXCEPT !.ticks = @ + 1]

RECURSIVE RunTicks(_, _, _)
\* Clash.update's loop: execute_tick, total_ticks += 1, n times
RunTicks(evs, st, n) ==
    IF n <= 0 THEN st
    ELSE RunTicks(evs, [execute_tick(evs, st) EXCEPT !.ticks = @ + 1], n - 1)

\* ------------------------------------------------------- P2P clocks
\* time.time() of peer p's machine
local_time(p) == Epoch + now + (IF p = Client THEN ClientSkew ELSE 0)

\* P2P.get_synced_time
get_synced_time(p) == local_time(p) + time_offset[p]

\* P2P.connect_as_peer_client taking the whole round trip for the way back
client_time_offset_no_half ==
    LET t1 == Epoch + ClientSkew - requestLeg
        host_time == Epoch
    IN  host_time - t1

\* P2P.connect_as_peer_client: the offset the client computes when the reply
\* arrives (real time replyLeg); the request left at real time -requestLeg
\* and the host read host_time at real time 0
client_time_offset ==
    LET t1 == Epoch + ClientSkew - requestLeg
        t3 == Epoch + ClientSkew + replyLeg
        host_time == Epoch
        rtt == t3 - t1
    IN  host_time - (t1 + rtt \div 2)

\* ---------------------------------------------------------------- Menu
\* Menu.generate_deck: the cost of a card of the given type
CardCost(card_type) ==
    CASE card_type = "Mago" -> 5
      [] card_type = "Caballero" -> 3
      [] card_type = "Mosquetera" -> 4

\* the decks generate_deck's random.choice is taken to produce
Decks ==
    { [i \in 0..7 |-> IF i % 2 = 0 THEN "Caballero" ELSE "Mosquetera"],
      [i \in 0..7 |-> IF i % 2 = 0 THEN "Mago" ELSE "Caballero"] }

\* the decks of the two peers in a run
DeckAssignments == {dk \in [Peers -> Decks] : dk[Host] # dk[Client]}

\* Menu.use_selected_card charging the card before the elixir check
use_selected_card_charge_first(m) ==
    IF m.selected_card = Nothing THEN [menu |-> m, used_card |-> None]
    ELSE LET cost == CardCost(m.deck[The(m.selected_card)]) IN
         IF m.elixir >= cost * ElixirScale
         THEN [menu |-> [m EXCEPT !.elixir = @ - cost * ElixirScale,
                                  !.elixir_used = @ + cost,
                                  !.selected_card = Nothing],
               used_card |-> m.deck[The(m.selected_card)]]
         ELSE [menu |-> [m EXCEPT !.elixir_used = @ + cost], used_card |-> None]

\* Menu.use_selected_card refusing a menu that holds exactly the cost
use_selected_card_strict(m) ==
    IF m.selected_card = Nothing THEN [menu |-> m, used_card |-> None]
    ELSE LET cost == CardCost(m.deck[The(m.selected_card)]) IN
         IF m.elixir > cost * ElixirScale
         THEN [menu |-> [m EXCEPT !.elixir = @ - cost * ElixirScale,
                                  !.elixir_used = @ + cost,
                                  !.selected_card = Nothing],
               used_card |-> m.deck[The(m.selected_card)]]
         ELSE [menu |-> m, used_card |-> None]

\* Menu.use_selected_card on m = [selected_card, elixir, elixir_used, deck]:
\* the menu afterwards and the card type returned (or None)
use_selected_card(m) ==
    IF m.selected_card = Nothing THEN [menu |-> m, used_card |-> None]
    ELSE LET cost == CardCost(m.deck[The(m.selected_card)]) IN
         IF m.elixir >= cost * ElixirScale
         THEN [menu |-> [m EXCEPT !.elixir = @ - cost * ElixirScale,
                                  !.elixir_used = @ + cost,
                                  !.selected_card = Nothing],
               used_card |-> m.deck[The(m.selected_card)]]
         ELSE [menu |-> m, used_card |-> None]

\* Menu.update_elixir_synced on [elixir, elixir_used, elixir_wasted,
\* last_update_time], at synced time t of a game started at start
update_elixir_synced(m, t, start) ==
    IF m.last_update_time = 0
    THEN [m EXCEPT !.last_update_time = t,
                   !.elixir = InitialElixir * ElixirScale]
    ELSE LET generated == t - start
             raw == InitialElixir * ElixirScale + generated
                    - m.elixir_used * ElixirScale - m.elixir_wasted
             over == raw > MaxElixir * ElixirScale
             wasted == IF over
                       THEN InitialElixir * ElixirScale + generated
                            - MaxElixir * ElixirScale
                            - m.elixir_used * ElixirScale
                       ELSE m.elixir_wasted
         IN  [m EXCEPT !.last_update_time = t,
                       !.elixir = IF over THEN MaxElixir * ElixirScale ELSE raw,
                       !.elixir_wasted = IF wasted > 0 THEN wasted ELSE 0]

\* ------------------------------------------------------------- Init
\* the latencies a handshake datagram may take (even, so rtt / 2 is whole)
Legs == {2 * i : i \in 0..MaxLeg}

\* the latencies a game datagram may take: prompt, just under the event
\* delay, and over it
Latencies == {0, EventDelay - 1, EventDelay + MaxLate}

\* the cells the board clicks of a run fall on: for player "1", (3, 8) is
\* free, (8, 2) is under its central tower, the others are player "2"'s
ClickCells == {<<3, 8>>, <<8, 2>>, <<3, 20>>, <<8, 28>>}

\* the cells the placements of two playing peers fall on
PlaceCells == {<<3, 8>>, <<3, 20>>}

\* every cell of the grid, and a border of positions outside it
AllCells == (-1..BoardWidth) \X (-1..BoardHeight)

\* a MOUSEBUTTONDOWN of pygame.event.get(), on a card of the menu or on a
\* cell of the board
MenuClick(i) == [kind |-> "menu", card_index |-> i, cell |-> <<0, 0>>]
BoardClick(c) == [kind |-> "board", card_index |-> 0, cell |-> c]

NoClick == [player |-> None, cell |-> <<0, 0>>, outcome |-> None]

\* Both processes constructed (Clash.__init__), and the host has just
\* handled the connect request: listen_for_clients called on_connect, which
\* set the host's game start (set_game_start_time sets elixir to 7).
Init ==
    /\ now = 0
    /\ requestLeg \in Legs
    /\ replyLeg \in Legs
    /\ rollback_system = RollbackSystem
    /\ tries = [p \in Peers |-> IF p = Host THEN 1 ELSE 0]
    /\ exit_code = [p \in Peers |-> Nothing]
    /\ sorting = [p \in Peers |-> Nothing]
    /\ connected = [p \in Peers |-> p = Host]
    /\ time_offset = [p \in Peers |-> 0]
    /\ game_start_time = [p \in Peers |-> IF p = Host THEN Epoch ELSE 0]
    /\ total_ticks = [p \in Peers |-> 0]
    /\ simulation_time = [p \in Peers |-> 0]
    /\ events = [p \in Peers |-> <<>>]
    /\ entities = [p \in Peers |-> setup_towers]
    /\ next_entity_id = [p \in Peers |-> Len(setup_towers)]
    /\ selected_card = [p \in Peers |-> Nothing]
    /\ elixir = [p \in Peers |-> IF p = Host THEN InitialElixir * ElixirScale ELSE 0]
    /\ elixir_used = [p \in Peers |-> 0]
    /\ elixir_wasted = [p \in Peers |-> 0]
    /\ last_update_time = [p \in Peers |-> 0]
    /\ deck \in DeckAssignments
    /\ loop_started = [p \in Peers |-> FALSE]
    /\ frame_time = [p \in Peers |-> -1]
    /\ network = {}
    /\ applied = [p \in Peers |-> <<>>]
    /\ received = [p \in Peers |-> <<>>]
    /\ last_click = NoClick
    /\ nplaced = 0

\* ---------------------------------------------------------- actions
\* connect_as_peer_client receives the reply: the offset, then
\* Clash.on_connect and start_game_communication; try_connection returns
\* and Clash.run enters its loop
OnConnectClient ==
    /\ ~connected[Client]
    /\ now = replyLeg
    /\ time_offset' = [time_offset EXCEPT ![Client] = client_time_offset]
    /\ connected' = [connected EXCEPT ![Client] = TRUE]
    /\ game_start_time' = [game_start_time EXCEPT
                             ![Client] = local_time(Client) + client_time_offset]
    /\ elixir' = [elixir EXCEPT ![Client] = InitialElixir * ElixirScale]
    /\ total_ticks' = [total_ticks EXCEPT ![Client] = 0]
    /\ loop_started' = [loop_started EXCEPT ![Client] = TRUE]
    /\ tries' = [tries EXCEPT ![Client] = @ + 1]
    /\ last_click' = NoClick
    /\ UNCHANGED <<now, requestLeg, replyLeg, rollback_system, exit_code,
                   sorting, simulation_time, events, entities,
                   next_entity_id, selected_card, elixir_used, elixir_wasted,
                   last_update_time, deck, frame_time, network, applied,
                   received, nplaced>>

\* the host's try_connection sees connected (it polls every 2 s) and
\* Clash.run enters its loop
StartLoopHost ==
    /\ connected[Host]
    /\ ~loop_started[Host]
    /\ now <= MaxHostWait
    /\ loop_started' = [loop_started EXCEPT ![Host] = TRUE]
    /\ last_click' = NoClick
    /\ UNCHANGED <<now, requestLeg, replyLeg, rollback_system, tries, exit_code,
                   sorting, connected, time_offset,
                   game_start_time, total_ticks, simulation_time, events,
                   entities, next_entity_id, selected_card, elixir, elixir_used,
                   elixir_wasted, last_update_time, deck, frame_time, network,
                   applied, received, nplaced>>

\* real time passes: one unit, once every running main loop has rendered a
\* frame in the current unit (Clash.update runs at 60 frames per second) and
\* the datagrams due now have reached their sockets
AdvanceTime ==
    /\ now < MaxTime
    /\ now = replyLeg => connected[Client]
    /\ now >= MaxHostWait => loop_started[Host]
    /\ \A p \in Peers : loop_started[p] => frame_time[p] = now
    /\ \A d \in network : d.arrival # now
    /\ now' = now + 1
    /\ last_click' = NoClick
    /\ UNCHANGED <<requestLeg, replyLeg, rollback_system, tries, exit_code,
                   sorting, connected, time_offset,
                   game_start_time, total_ticks, simulation_time, events,
                   entities, next_entity_id, selected_card, elixir, elixir_used,
                   elixir_wasted, last_update_time, deck, loop_started,
                   frame_time, network, applied, received, nplaced>>

\* what Clash.update leaves on peer p: st after its ticks, m the menu after
\* update_elixir_synced
Updated(p, st, m) ==
    /\ entities' = [entities EXCEPT ![p] = st.ents]
    /\ next_entity_id' = [next_entity_id EXCEPT ![p] = st.nid]
    /\ simulation_time' = [simulation_time EXCEPT ![p] = st.sim]
    /\ total_ticks' = [total_ticks EXCEPT ![p] = st.ticks]
    /\ applied' = [applied EXCEPT ![p] = st.log]
    /\ elixir' = [elixir EXCEPT ![p] = m.elixir]
    /\ elixir_wasted' = [elixir_wasted EXCEPT ![p] = m.elixir_wasted]
    /\ last_update_time' = [last_update_time EXCEPT ![p] = m.last_update_time]

\* Clash.update: the win check, the ticks due since the last frame, the
\* elixir
Update(p) ==
    /\ loop_started[p]
    /\ frame_time[p] # now
    /\ win_condition(p, entities[p]) = "continue"
    /\ LET expected_total_ticks ==
               (get_synced_time(p) - game_start_time[p]) \div TickTime
           ticks_to_process == expected_total_ticks - total_ticks[p]
       IN  Updated(p,
               RunTicks(events[p],
                        [ents |-> entities[p], nid |-> next_entity_id[p],
                         sim |-> simulation_time[p], ticks |-> total_ticks[p],
                         log |-> applied[p]],
                        ticks_to_process),
               update_elixir_synced(
                   [elixir |-> elixir[p], elixir_used |-> elixir_used[p],
                    elixir_wasted |-> elixir_wasted[p],
                    last_update_time |-> last_update_time[p]],
                   get_synced_time(p), game_start_time[p]))
    /\ frame_time' = [frame_time EXCEPT ![p] = now]
    /\ last_click' = NoClick
    /\ UNCHANGED <<now, requestLeg, replyLeg, rollback_system, tries, exit_code,
                   sorting, connected, time_offset,
                   game_start_time, events, selected_card, elixir_used, deck,
                   loop_started, network, received, nplaced>>

\* Menu.handle_click on a card of the menu
handle_click(m, i) == [m EXCEPT !.selected_card = Some(i)]

\* Clash.handle_board_click clearing the selected card on every rejection
handle_board_click_always_clear(player_id, grid_pos, m, timestamp, uid) ==
    IF ~is_my_area(player_id, grid_pos)
    THEN [menu |-> [m EXCEPT !.selected_card = Nothing], event |-> Nothing,
          outcome |-> "out_of_area"]
    ELSE IF ~is_valid_placement(grid_pos)
    THEN [menu |-> [m EXCEPT !.selected_card = Nothing], event |-> Nothing,
          outcome |-> "invalid"]
    ELSE LET used == use_selected_card(m) IN
         IF used.used_card # None
         THEN [menu |-> used.menu,
               event |-> Some(Event("spawn_unit", timestamp, EventDelay,
                                    [entity_type |-> used.used_card,
                                     grid_position |-> grid_pos,
                                     player_id |-> player_id], uid)),
               outcome |-> "placed"]
         ELSE [menu |-> [used.menu EXCEPT !.selected_card = Nothing],
               event |-> Nothing, outcome |-> "not_used"]

\* Clash.handle_board_click on the menu m = [selected_card, elixir,
\* elixir_used, deck]: the menu afterwards, the event created (or None) and
\* the branch taken
handle_board_click(player_id, grid_pos, m, timestamp, uid) ==
    IF ~is_my_area(player_id, grid_pos)
    THEN [menu |-> [m EXCEPT !.selected_card = Nothing], event |-> Nothing,
          outcome |-> "out_of_area"]
    ELSE IF ~is_valid_placement(grid_pos)
    THEN [menu |-> [m EXCEPT !.selected_card = Nothing], event |-> Nothing,
          outcome |-> "invalid"]
    ELSE LET used == use_selected_card(m) IN
         IF used.used_card # None
         THEN [menu |-> used.menu,
               event |-> Some(Event("spawn_unit", timestamp, EventDelay,
                                    [entity_type |-> used.used_card,
                                     grid_position |-> grid_pos,
                                     player_id |-> player_id], uid)),
               outcome |-> "placed"]
         ELSE [menu |-> used.menu, event |-> Nothing, outcome |-> "not_used"]

\* P2P.send_data: the game datagram; sentAt is the real time of the send
\* and arrival the real time it reaches the peer's socket
send_data(p, data, latency) ==
    [to |-> Other(p), data |-> data, timestamp |-> get_synced_time(p),
     sentAt |-> now, arrival |-> now + latency]

\* the latency that stands for a send_data that returns False: peer_address
\* or game_socket is missing, or sendto raised (listen_for_events closes the
\* game socket when recvfrom fails)
Unsent == -1

\* what P2P.send_data puts on the network: the datagram, or nothing when it
\* returns False
sent_by(p, data, latency) ==
    IF latency = Unsent THEN {} ELSE {send_data(p, data, latency)}

\* one MOUSEBUTTONDOWN of Clash.handle_inputs, on the peer's input state
\* inp = [menu, events, sent, nplaced, last]
handle_mouse_button_down(p, click, inp, latency) ==
    IF click.kind = "menu"
    THEN [inp EXCEPT !.menu = handle_click(@, click.card_index)]
    ELSE LET r == handle_board_click(p, click.cell, inp.menu,
                      get_synced_time(p) - game_start_time[p],
                      <<p, inp.nplaced + 1>>)
             last == [player |-> p, cell |-> click.cell, outcome |-> r.outcome]
         IN  IF r.event # Nothing
             THEN [menu |-> r.menu,
                   events |-> add_event(inp.events, The(r.event)),
                   sent |-> inp.sent
                            \cup sent_by(p, to_json(The(r.event)), latency),
                   nplaced |-> inp.nplaced + 1,
                   last |-> last]
             ELSE [inp EXCEPT !.menu = r.menu, !.last = last]

RECURSIVE handle_events(_, _, _, _, _)
\* the loop of Clash.handle_inputs over pygame.event.get()
handle_events(p, queue, i, inp, latency) ==
    IF i > Len(queue) THEN inp
    ELSE handle_events(p, queue, i + 1,
                       handle_mouse_button_down(p, queue[i], inp, latency),
                       latency)

\* Clash.handle_inputs with the given clicks in pygame's event queue; the
\* datagrams it sends take the given latency
handle_inputs(p, queue, latency) ==
    /\ loop_started[p]
    /\ frame_time[p] # now
    /\ get_synced_time(p) - game_start_time[p] <= MaxClickTime
    /\ LET inp == handle_events(p, queue, 1,
                      [menu |-> [selected_card |-> selected_card[p],
                                 elixir |-> elixir[p],
                                 elixir_used |-> elixir_used[p],
                                 deck |-> deck[p]],
                       events |-> events[p], sent |-> {},
                       nplaced |-> nplaced, last |-> NoClick],
                      latency)
       IN  /\ inp.nplaced <= MaxEvents
           /\ selected_card' = [selected_card EXCEPT ![p] = inp.menu.selected_card]
           /\ elixir' = [elixir EXCEPT ![p] = inp.menu.elixir]
           /\ elixir_used' = [elixir_used EXCEPT ![p] = inp.menu.elixir_used]
           /\ events' = [events EXCEPT ![p] = inp.events]
           /\ network' = network \cup inp.sent
           /\ nplaced' = inp.nplaced
           /\ last_click' = inp.last
    /\ UNCHANGED <<now, requestLeg, replyLeg, rollback_system, tries, exit_code,
                   sorting, connected, time_offset,
                   game_start_time, total_ticks, simulation_time, entities,
                   next_entity_id, elixir_wasted, last_update_time, deck,
                   loop_started, frame_time, applied, received>>

\* P2P.listen_for_events hands a datagram to Clash.on_receive
on_receive(d) ==
    /\ d \in network
    /\ connected[d.to]
    /\ now = d.arrival
    /\ LET p == d.to
           event == from_json(d.data)
       IN  /\ events' = [events EXCEPT ![p] = add_event(@, event)]
           /\ received' = [received EXCEPT ![p] = Append(@,
                  [uid |-> event.uid,
                   aparition_time |-> event.aparition_time,
                   simulation_time |-> simulation_time[p],
                   latency |-> now - d.sentAt])]
    /\ network' = network \ {d}
    /\ last_click' = NoClick
    /\ UNCHANGED <<now, requestLeg, replyLeg, rollback_system, tries, exit_code,
                   sorting, connected, time_offset,
                   game_start_time, total_ticks, simulation_time, entities,
                   next_entity_id, selected_card, elixir, elixir_used,
                   elixir_wasted, last_update_time, deck, loop_started,
                   frame_time, applied, nplaced>>

\* a datagram reaches the client's machine before start_game_communication
\* has bound the game socket: it is discarded
discard_unbound(d) ==
    /\ d \in network
    /\ ~connected[d.to]
    /\ now = d.arrival
    /\ network' = network \ {d}
    /\ last_click' = NoClick
    /\ UNCHANGED <<now, requestLeg, replyLeg, rollback_system, tries, exit_code,
                   sorting, connected, time_offset,
                   game_start_time, total_ticks, simulation_time, events,
                   entities, next_entity_id, selected_card, elixir, elixir_used,
                   elixir_wasted, last_update_time, deck, loop_started,
                   frame_time, applied, received, nplaced>>

\* a player picks a card and clicks a cell of the own half, both clicks
\* handled by one call of handle_inputs
PlaceQueues(p) ==
    {<<MenuClick(i), BoardClick(c)>> :
        i \in 0..MaxCardIndex, c \in {c \in PlaceCells : is_my_area(p, c)}}

\* two peers playing: placements, frames and the datagrams between them
Next ==
    \/ OnConnectClient
    \/ StartLoopHost
    \/ AdvanceTime
    \/ \E p \in Peers : Update(p)
    \/ \E p \in Peers : \E q \in PlaceQueues(p) : \E l \in Latencies :
           handle_inputs(p, q, l)
    \/ \E d \in network : on_receive(d)
    \/ \E d \in network : discard_unbound(d)

Spec == Init /\ [][Next]_vars

\* one peer's clicks, one MOUSEBUTTONDOWN per call of handle_inputs, before
\* and after its first frame; real time stands still
NextMenu ==
    \/ OnConnectClient
    \/ StartLoopHost
    \/ \E p \in Peers : Update(p)
    \/ \E p \in Peers : \E i \in 0..MaxCardIndex :
           handle_inputs(p, <<MenuClick(i)>>, 0)
    \/ \E p \in Peers : \E c \in ClickCells :
           handle_inputs(p, <<BoardClick(c)>>, 0)

SpecMenu == Init /\ [][NextMenu]_vars

\* Both peers connected over a handshake without latency, their loops
\* running, a card selected in each menu, and one click on some position of
\* the board waiting in pygame's event queue (last_click, outcome pending)
InitPlacement ==
    /\ now = 0
    /\ requestLeg = 0
    /\ replyLeg = 0
    /\ rollback_system = RollbackSystem
    /\ tries = [p \in Peers |-> 1]
    /\ exit_code = [p \in Peers |-> Nothing]
    /\ sorting = [p \in Peers |-> Nothing]
    /\ connected = [p \in Peers |-> TRUE]
    /\ time_offset = [p \in Peers |-> IF p = Host THEN 0 ELSE -ClientSkew]
    /\ game_start_time = [p \in Peers |-> Epoch]
    /\ total_ticks = [p \in Peers |-> 0]
    /\ simulation_time = [p \in Peers |-> 0]
    /\ events = [p \in Peers |-> <<>>]
    /\ entities = [p \in Peers |-> setup_towers]
    /\ next_entity_id = [p \in Peers |-> Len(setup_towers)]
    /\ selected_card \in [Peers -> {Some(i) : i \in 0..MaxCardIndex}]
    /\ elixir = [p \in Peers |-> InitialElixir * ElixirScale]
    /\ elixir_used = [p \in Peers |-> 0]
    /\ elixir_wasted = [p \in Peers |-> 0]
    /\ last_update_time = [p \in Peers |-> 0]
    /\ deck \in DeckAssignments
    /\ loop_started = [p \in Peers |-> TRUE]
    /\ frame_time = [p \in Peers |-> -1]
    /\ network = {}
    /\ applied = [p \in Peers |-> <<>>]
    /\ received = [p \in Peers |-> <<>>]
    /\ last_click \in {[player |-> p, cell |-> c, outcome |-> "pending"] :
                          p \in Peers, c \in AllCells}
    /\ nplaced = 0

\* Clash.handle_inputs on the click that waits in the queue
HandlePendingClick ==
    /\ last_click.outcome = "pending"
    /\ handle_inputs(last_click.player, <<BoardClick(last_click.cell)>>, 0)

NextPlacement == HandlePendingClick

SpecPlacement == InitPlacement /\ [][NextPlacement]_vars

\* ------------------------------------------- the model's restrictions
\* every troop is still in its delay window (Troop.update's other branches
\* are not reached)
TroopsInDelay ==
    \A p \in Peers : \A i \in 1..Len(entities[p]) :
        entities[p][i].type = "troop" => entities[p][i].delay > 0

\* no tower holds a target (Tower.attack is not reached)
TowersIdle ==
    \A p \in Peers : \A i \in 1..Len(entities[p]) :
        entities[p][i].type = "tower" => entities[p][i].target = Nothing

\* ------------------------------------------------------------- claims
\* what a comparison of two boards looks at: id, kind, owner, position, life
EntityView(e) ==
    [entity_id |-> e.entity_id, kind |-> e.kind, owner |-> e.owner,
     x |-> e.x, y |-> e.y, life |-> e.life]

BoardView(p) == {EntityView(entities[p][i]) : i \in 1..Len(entities[p])}

\* id, position and life only
IdPositionLife(p) ==
    {[entity_id |-> entities[p][i].entity_id, x |-> entities[p][i].x,
      y |-> entities[p][i].y, life |-> entities[p][i].life] :
        i \in 1..Len(entities[p])}

\* the event sequence a board was fed: which placement in which tick
FedEvents(p) ==
    [i \in 1..Len(applied[p]) |-> <<applied[p][i].tick, applied[p][i].uid>>]

\* how many times peer p's board was handed the placement uid
TimesApplied(p, uid) ==
    Cardinality({k \in 1..Len(applied[p]) : applied[p][k].uid = uid})

\* C1: whenever the two peers have executed the same number of ticks, their
\* boards hold the same entities (ids, kinds, owners, positions, life)
C1_BoardsAgreeAtEveryTick ==
    total_ticks[Host] = total_ticks[Client] => BoardView(Host) = BoardView(Client)

\* C2: a datagram that took less than the event delay is never late: when
\* on_receive adds its event, the apparition time is not earlier than the
\* receiver's simulation_time
C2_UnderDelayIsNeverLate ==
    \A p \in Peers : \A i \in 1..Len(received[p]) :
        received[p][i].latency < EventDelay
            => received[p][i].aparition_time >= received[p][i].simulation_time

ReceivedLate(p, uid) ==
    \E k \in 1..Len(received[p]) :
        /\ received[p][k].uid = uid
        /\ received[p][k].aparition_time < received[p][k].simulation_time

\* C4: every event that was added to a timeline in time, and whose
\* apparition time the simulation has passed, was handed to the board
\* exactly once
C4_AppliedExactlyOnce ==
    \A p \in Peers : \A i \in 1..Len(events[p]) :
        ( /\ events[p][i].aparition_time < simulation_time[p]
          /\ ~ReceivedLate(p, events[p][i].uid) )
            => TimesApplied(p, events[p][i].uid) = 1

\* the Knights of player "1" on peer p's board at the centre of cell (3, 8)
KnightsAt38(p) ==
    {j \in 1..Len(entities[p]) :
        /\ entities[p][j].kind = "Caballero"
        /\ entities[p][j].owner = "1"
        /\ entities[p][j].x = 3500 /\ entities[p][j].y = 8500
        /\ entities[p][j].life = 1766}

C6_LateEventNeverApplied ==
    \A p \in Peers : \A i \in 1..Len(received[p]) :
        received[p][i].aparition_time < received[p][i].simulation_time
            => /\ \E j \in 1..Len(events[p]) : events[p][j].uid = received[p][i].uid
               /\ TimesApplied(p, received[p][i].uid) = 0

\* C6, its case: a late event was received and ticks have run since
C6_Witness ==
    \E p \in Peers : \E i \in 1..Len(received[p]) :
        /\ received[p][i].aparition_time < received[p][i].simulation_time
        /\ simulation_time[p] > received[p][i].simulation_time

\* C10: no board is handed two spawns on the same cell in the same tick
C10_NoTwoSpawnsOnOneCell ==
    \A p \in Peers : \A i, j \in 1..Len(applied[p]) :
        (i < j /\ applied[p][i].tick = applied[p][j].tick)
            => applied[p][i].cell # applied[p][j].cell

\* the obstacle set as the specification words it: the river rows 15-16
\* minus the bridge columns 2-4 and 13-15, plus the six tower footprints
StatedObstacle(c) ==
    \/ /\ c[2] \in {15, 16}
       /\ c[1] \in 0..17
       /\ c[1] \notin {2, 3, 4, 13, 14, 15}
    \/ c[1] \in 7..10 /\ c[2] \in 1..4
    \/ c[1] \in 7..10 /\ c[2] \in 27..30
    \/ c[1] \in 2..4 /\ c[2] \in 5..7
    \/ c[1] \in 13..15 /\ c[2] \in 5..7
    \/ c[1] \in 2..4 /\ c[2] \in 24..26
    \/ c[1] \in 13..15 /\ c[2] \in 24..26

\* the half of player p as the specification words it
StatedHalf(p, c) ==
    IF p = "1" THEN c[2] \in 0..15 ELSE c[2] \in 16..31

\* the placement rule as the specification words it
StatedPositionOk(p, c) ==
    /\ 0 <= c[1] /\ c[1] < 18
    /\ 0 <= c[2] /\ c[2] < 32
    /\ ~StatedObstacle(c)
    /\ StatedHalf(p, c)

\* a step is a board click handled by handle_inputs
IsBoardClickStep == last_click'.outcome \notin {None, "pending"}

\* the click of the step falls outside the clicking player's half
ClickOutOfArea == ~StatedHalf(last_click'.player, last_click'.cell)

\* the click of the step falls in the player's half, on an obstacle or
\* outside the board
ClickOnObstacle ==
    /\ StatedHalf(last_click'.player, last_click'.cell)
    /\ ~StatedPositionOk(last_click'.player, last_click'.cell)

\* the click of the step falls on a free cell of the player's half with a
\* card selected that costs more elixir than the player holds
ClickWithoutElixir ==
    /\ StatedPositionOk(last_click'.player, last_click'.cell)
    /\ selected_card[last_click'.player] # Nothing
    /\ elixir[last_click'.player]
         < ElixirScale * CardCost(deck[last_click'.player]
                                      [The(selected_card[last_click'.player])])

\* C7: a board click rejected for its cell (outside the half, or an
\* obstacle) or for insufficient elixir leaves the local timeline, the
\* network, elixir and elixir_used as they were
C7_RejectionChangesNothing ==
    [][ (IsBoardClickStep /\ (ClickOutOfArea \/ ClickOnObstacle \/ ClickWithoutElixir))
          => /\ events' = events
             /\ network' = network
             /\ elixir' = elixir
             /\ elixir_used' = elixir_used ]_vars

\* C7, its case: a click has just been rejected for insufficient elixir
\* after an earlier placement was paid for
C7_Witness ==
    /\ last_click.outcome = "not_used"
    /\ selected_card[last_click.player] # Nothing
    /\ elixir_used[last_click.player] > 0
    /\ StatedPositionOk(last_click.player, last_click.cell)

\* C8 as stated: every rejected board click, for an out-of-area cell, an
\* obstacle cell or insufficient elixir, leaves no card selected
C8_EveryRejectionClearsCard ==
    [][ (IsBoardClickStep /\ (ClickOutOfArea \/ ClickOnObstacle \/ ClickWithoutElixir))
          => selected_card'[last_click'.player] = Nothing ]_vars

\* C8, amended: a board click rejected for its cell (outside the half, or
\* an obstacle) leaves no card selected; a click rejected for insufficient
\* elixir leaves the selected card as it was
C8_CellRejectionClearsCard ==
    [][ /\ (IsBoardClickStep /\ (ClickOutOfArea \/ ClickOnObstacle))
            => selected_card'[last_click'.player] = Nothing
        /\ (IsBoardClickStep /\ ClickWithoutElixir)
            => selected_card'[last_click'.player] = selected_card[last_click'.player]
      ]_vars

\* C8, its case: a click outside the half has just been rejected, by a peer
\* that had paid for a placement before, and no card is selected
C8_Witness ==
    /\ last_click.outcome = "out_of_area"
    /\ selected_card[last_click.player] = Nothing
    /\ elixir_used[last_click.player] > 0

\* C9: a board click passes both position checks exactly when the cell is
\* in bounds, not an obstacle, and in the clicking player's half
C9_PositionChecks ==
    last_click.outcome \notin {None, "pending"}
        => ( last_click.outcome \notin {"out_of_area", "invalid"}
               <=> StatedPositionOk(last_click.player, last_click.cell) )

\* C9, its case: a click on the open bridge cell (3, 15) of the river rows,
\* by player "1", passed the checks and placed a card
C9_Witness ==
    /\ last_click.outcome = "placed"
    /\ last_click.player = "1"
    /\ last_click.cell = <<3, 15>>

\* ------------------------------------------------ specification: a card
\* the selections the click of SpecCard finds: none, or card 0 .. MaxSelected
MaxSelected == 1

\* the elixir a menu may hold when the click is handled, * ElixirScale:
\* around the three costs, empty, and full
ElixirLevels ==
    {0, 224, 225, 226, 299, 300, 301, 374, 375, 376, 525, 750}

\* Both peers connected, their loops running; the peer that clicks has any
\* selection and any elixir level, and has paid for a Knight before or for
\* nothing; its click on a free cell of its half waits in pygame's queue
InitCard ==
    /\ now = 0
    /\ requestLeg = 0
    /\ replyLeg = 0
    /\ rollback_system = RollbackSystem
    /\ tries = [p \in Peers |-> 1]
    /\ exit_code = [p \in Peers |-> Nothing]
    /\ sorting = [p \in Peers |-> Nothing]
    /\ connected = [p \in Peers |-> TRUE]
    /\ time_offset = [p \in Peers |-> IF p = Host THEN 0 ELSE -ClientSkew]
    /\ game_start_time = [p \in Peers |-> Epoch]
    /\ total_ticks = [p \in Peers |-> 0]
    /\ simulation_time = [p \in Peers |-> 0]
    /\ events = [p \in Peers |-> <<>>]
    /\ entities = [p \in Peers |-> setup_towers]
    /\ next_entity_id = [p \in Peers |-> Len(setup_towers)]
    /\ elixir_wasted = [p \in Peers |-> 0]
    /\ last_update_time = [p \in Peers |-> 0]
    /\ deck \in DeckAssignments
    /\ loop_started = [p \in Peers |-> TRUE]
    /\ frame_time = [p \in Peers |-> -1]
    /\ network = {}
    /\ applied = [p \in Peers |-> <<>>]
    /\ received = [p \in Peers |-> <<>>]
    /\ nplaced = 0
    /\ \E p \in Peers :
        /\ last_click \in {[player |-> p, cell |-> c, outcome |-> "pending"] :
                              c \in {c \in PlaceCells : is_my_area(p, c)}}
        /\ \E s \in {Nothing} \cup {Some(i) : i \in 0..MaxSelected} :
               selected_card = [q \in Peers |-> IF q = p THEN s ELSE Nothing]
        /\ \E lv \in ElixirLevels :
               elixir = [q \in Peers |-> IF q = p THEN lv
                                         ELSE InitialElixir * ElixirScale]
        /\ \E u \in {0, 3} :
               elixir_used = [q \in Peers |-> IF q = p THEN u ELSE 0]

NextCard == HandlePendingClick

SpecCard == InitCard /\ [][NextCard]_vars

\* the costs as the specification words them
StatedCost(card_type) ==
    CASE card_type = "Caballero" -> 3
      [] card_type = "Mosquetera" -> 4
      [] card_type = "Mago" -> 5

\* C18: a board click on a free cell of the own half uses the selected card
\* (use_selected_card succeeds) exactly when a card is selected and the
\* elixir is at least its cost; on success elixir_used grows by exactly the
\* cost of the card; on failure elixir_used and elixir are unchanged
C18_CardUsedIffAffordable ==
    [][ (last_click.outcome = "pending"
         /\ last_click'.outcome \in {"placed", "not_used"})
          => LET p == last_click'.player
                 sel == selected_card[p]
                 cost == StatedCost(deck[p][The(sel)])
                 ok == sel # Nothing /\ elixir[p] >= cost * ElixirScale
             IN  /\ (last_click'.outcome = "placed") <=> ok
                 /\ ok => elixir_used'[p] = elixir_used[p] + cost
                 /\ ~ok => (elixir_used' = elixir_used /\ elixir' = elixir) ]_vars

\* C18, its case: a Musketeer was paid for by a menu that held exactly its
\* cost, 4 elixir
C18_Witness ==
    /\ last_click.outcome = "placed"
    /\ \E i \in 1..Len(events[last_click.player]) :
           events[last_click.player][i].data.entity_type = "Mosquetera"
    /\ elixir[last_click.player] = 0
    /\ elixir_used[last_click.player] \in {4, 7}

\* clamp(7 + t / 1.5 - used - wasted, 0, 10) * ElixirScale, for peer p at
\* the synced time of its last update_elixir_synced call
StatedElixir(p) ==
    LET raw == InitialElixir * ElixirScale
               + (last_update_time[p] - game_start_time[p])
               - elixir_used[p] * ElixirScale - elixir_wasted[p]
    IN  IF raw < 0 THEN 0
        ELSE IF raw > MaxElixir * ElixirScale THEN MaxElixir * ElixirScale
        ELSE raw

\* C17: once update_elixir_synced has been called, whatever placements came
\* before and after, elixir equals clamp(7 + t/1.5 - used - wasted, 0, 10)
\* and lies in [0, 10]
C17_ElixirFollowsFormula ==
    \A p \in Peers :
        last_update_time[p] # 0
            => /\ elixir[p] = StatedElixir(p)
               /\ 0 <= elixir[p]
               /\ elixir[p] <= MaxElixir * ElixirScale

\* ---------------------------------------------- specification: combat
MaxCombatTime == 300     \* real time runs from 0 to MaxCombatTime units
CombatStartTicks == 500  \* the ticks the game has run when SpecCombat starts

\* tower k of setup_towers after CombatStartTicks ticks without a target:
\* a lateral tower's cooldown has gone down every tick, the central
\* tower's is reset by every update
IdleTower(k) ==
    [setup_towers[k] EXCEPT !.cooldown =
        IF setup_towers[k].kind = "central" THEN -TickTime
        ELSE -TickTime * CombatStartTicks]

\* tower k with the given life, shooting at the entity target
ShootingTower(k, life, target, cooldown) ==
    [setup_towers[k] EXCEPT !.life = life, !.state = "attacking",
                            !.target = Some(target), !.cooldown = cooldown]

\* a troop past its delay window at (x, y), with the given life, Attacking
\* or Moving towards the entity target
ActiveTroop(id, entity_type, owner, x, y, life, state, target, cooldown) ==
    [Troop(id, entity_type, 0, 0, owner) EXCEPT
        !.x = x, !.y = y, !.life = life, !.delay = 0, !.state = state,
        !.target = Some(target), !.cooldown = cooldown]

\* Last towers: each player has one lateral tower left, and a Knight of the
\* other player stands at it; life3 and life5 are the lives of the towers,
\* cooldown8 the cooldown of player "2"'s Knight
LastTowers(life3, life5, cooldown8) ==
    << ShootingTower(3, life3, 8, 20),
       ShootingTower(5, life5, 7, 20),
       ActiveTroop(7, "Caballero", "1", 3500, 23020, 1000, "attacking", 5, 2),
       ActiveTroop(8, "Caballero", "2", 14500, 8980, 1000, "attacking", 3,
                   cooldown8) >>

\* Siege: player "2"'s Knight (entity 7) stands at player "1"'s left
\* lateral tower, in range of the undamaged central tower; player "1" has
\* just spawned a Musketeer (entity 8) two cells behind the Knight
Siege(life2, life7) ==
    << IdleTower(1), ShootingTower(2, life2, 7, 2), IdleTower(3),
       IdleTower(4), IdleTower(5), IdleTower(6),
       ActiveTroop(7, "Caballero", "2", 3500, 8980, life7, "attacking", 2, 2),
       Troop(8, "Mosquetera", 3000, 10000, "1") >>

\* Two blows: player "2"'s Knight (entity 7), with the given life, at the
\* left lateral tower of player "1"; a Knight of player "1" (entity 8) has
\* just come in range of it, and a projectile of the tower (entity 9) is
\* one tick short of it
TwoBlows(life7) ==
    << IdleTower(1), ShootingTower(2, 2000, 7, 22), IdleTower(3),
       IdleTower(4), IdleTower(5), IdleTower(6),
       ActiveTroop(7, "Caballero", "2", 3500, 8980, life7, "attacking", 2, 30),
       ActiveTroop(8, "Caballero", "1", 3500, 9460, 1766, "moving", 7, 0),
       [Projectile(9, "Projectile", 3059, 8245, "1", 5,
                   [entity_id |-> 7, x |-> 3500, y |-> 8980], 109)
           EXCEPT !.elapsed_time = 18] >>

\* Wizard: player "1"'s Wizard (entity 8) and left lateral tower shoot at
\* player "2"'s Knight (entity 7) at the tower
WizardDefends(life7) ==
    << IdleTower(1), ShootingTower(2, 2000, 7, 10), IdleTower(3),
       IdleTower(4), IdleTower(5), IdleTower(6),
       ActiveTroop(7, "Caballero", "2", 3500, 8980, life7, "attacking", 2, 30),
       ActiveTroop(8, "Mago", "1", 3500, 12500, 755, "attacking", 7, 2) >>

\* the boards SpecCombat starts from
Scenarios ==
    {LastTowers(l3, l5, c) : l3 \in {150, 400}, l5 \in {150, 400}, c \in {2, 4}}
    \cup {Siege(l2, l7) : l2 \in {150, 2000}, l7 \in {300, 1766}}
    \cup {TwoBlows(l7) : l7 \in {100, 150, 400}}
    \cup {WizardDefends(l7) : l7 \in {250, 1766}}

\* A game in progress: both peers connected CombatStartTicks ticks ago over
\* a handshake without latency, their boards holding the same entities
InitCombat ==
    /\ now = 0
    /\ requestLeg = 0
    /\ replyLeg = 0
    /\ rollback_system = RollbackSystem
    /\ tries = [p \in Peers |-> 1]
    /\ exit_code = [p \in Peers |-> Nothing]
    /\ sorting = [p \in Peers |-> Nothing]
    /\ connected = [p \in Peers |-> TRUE]
    /\ time_offset = [p \in Peers |-> IF p = Host THEN 0 ELSE -ClientSkew]
    /\ game_start_time = [p \in Peers |-> Epoch - TickTime * CombatStartTicks]
    /\ total_ticks = [p \in Peers |-> CombatStartTicks]
    /\ simulation_time = [p \in Peers |-> TickTime * CombatStartTicks]
    /\ events = [p \in Peers |-> <<>>]
    /\ \E s \in Scenarios :
          /\ entities = [p \in Peers |-> s]
          /\ next_entity_id = [p \in Peers |-> Len(setup_towers)
                + Len(SelectSeq(s, LAMBDA e : e.type # "tower"))]
    /\ selected_card = [p \in Peers |-> Nothing]
    /\ elixir = [p \in Peers |-> InitialElixir * ElixirScale]
    /\ elixir_used = [p \in Peers |-> 0]
    /\ elixir_wasted = [p \in Peers |-> 0]
    /\ last_update_time = [p \in Peers |-> Epoch - 1]
    /\ deck \in {dk \in DeckAssignments : dk[Host][0] = "Caballero"}
    /\ loop_started = [p \in Peers |-> TRUE]
    /\ frame_time = [p \in Peers |-> -1]
    /\ network = {}
    /\ applied = [p \in Peers |-> <<>>]
    /\ received = [p \in Peers |-> <<>>]
    /\ last_click = NoClick
    /\ nplaced = 0

\* real time passes: one tick_time, once every peer that is still playing
\* has rendered its frame
NextFrame ==
    /\ now < MaxCombatTime
    /\ \A p \in Peers :
           win_condition(p, entities[p]) = "continue" => frame_time[p] = now
    /\ now' = now + TickTime
    /\ UNCHANGED <<requestLeg, replyLeg, rollback_system, tries, exit_code,
                   sorting, connected, time_offset,
                   game_start_time, total_ticks, simulation_time, events,
                   entities, next_entity_id, selected_card, elixir, elixir_used,
                   elixir_wasted, last_update_time, deck, loop_started,
                   frame_time, network, applied, received, last_click, nplaced>>

NextCombat ==
    \/ NextFrame
    \/ \E p \in Peers : Update(p)

SpecCombat == InitCombat /\ [][NextCombat]_vars

\* no active tower of the board of peer p is owned by q / by another than q
NoTowerOwnedBy(p, q) ==
    \A i \in 1..Len(entities[p]) :
        ~(entities[p][i].type = "tower" /\ entities[p][i].active
          /\ entities[p][i].owner = q)

NoTowerOfOthers(p, q) ==
    \A i \in 1..Len(entities[p]) :
        ~(entities[p][i].type = "tower" /\ entities[p][i].active
          /\ entities[p][i].owner # q)

\* C11 as stated: win_condition for player A reports win exactly when no
\* active tower of another owner remains, and lose exactly when no active
\* tower of A remains, also when both players lost their last tower in the
\* same tick
C11_WinIffNoOpponentTower ==
    \A p \in Peers :
        /\ win_condition(p, entities[p]) = "win" <=> NoTowerOfOthers(p, p)
        /\ win_condition(p, entities[p]) = "lose" <=> NoTowerOwnedBy(p, p)

\* C11, amended: win_condition reports lose exactly when no active tower of
\* A remains, and win exactly when a tower of A remains and none of another
\* owner does; when both players lost their last tower in the same tick it
\* reports lose to both
C11_LoseFirst ==
    \A p \in Peers :
        /\ win_condition(p, entities[p]) = "lose" <=> NoTowerOwnedBy(p, p)
        /\ win_condition(p, entities[p]) = "win"
             <=> (NoTowerOfOthers(p, p) /\ ~NoTowerOwnedBy(p, p))

\* C11, its case: a tick has destroyed the last towers of both players on
\* a board
C11_Witness ==
    \E p \in Peers :
        /\ total_ticks[p] > CombatStartTicks
        /\ NoTowerOwnedBy(p, "1")
        /\ NoTowerOwnedBy(p, "2")

\* the towers and troops of a list
TowerOrTroop(e) == e.type \in {"tower", "troop"}

\* C12: after every tick, every tower and troop still in the board's
\* entity list is active and has 0 <= life <= max_life, and the life of an
\* entity is never greater than it was before the tick
C12_LifeBounded ==
    [][\A p \in Peers : \A i \in 1..Len(entities'[p]) :
          LET e == entities'[p][i]
          IN  TowerOrTroop(e) =>
                /\ e.active
                /\ 0 <= e.life
                /\ e.life <= e.max_life
                /\ \A j \in 1..Len(entities[p]) :
                      entities[p][j].entity_id = e.entity_id
                          => e.life <= entities[p][j].life]_vars

\* C12, its case: on a board that began with six towers a tick has taken a
\* destroyed tower off the list, and a damaged troop is still on it
C12_Witness ==
    \E p \in Peers :
        /\ total_ticks[p] > CombatStartTicks
        /\ Len(TowersOf(entities[p])) = Len(setup_towers) - 1
        /\ \E i \in 1..Len(entities[p]) :
              /\ entities[p][i].type = "troop"
              /\ entities[p][i].life < entities[p][i].max_life

\* the execute loop of Board.update just before it reaches position k
RECURSIVE ExecutedBefore(_, _)
ExecutedBefore(k, st) ==
    IF k = 1 THEN st
    ELSE EntityExecute(k - 1, ExecutedBefore(k - 1, st))

\* the board of peer p when the execute loop of its next tick reaches
\* position k
BeforeExecuteOf(p, k) ==
    ExecutedBefore(k, [ents |-> UpdatePass(entities[p], 1),
                       new_entities |-> <<>>,
                       nid |-> next_entity_id[p]])

\* C13: a tick that finds a troop in its delay window (delay > 0) leaves
\* the troop where it was, Idle and with cooldown 0, and the troop's
\* execute changes nothing on the board: no projectile, no damage
C13_DelayWindowInert ==
    [][\A p \in Peers :
          total_ticks'[p] = total_ticks[p] + 1 =>
             \A i \in 1..Len(entities[p]) :
                LET e == entities[p][i] IN
                (e.type = "troop" /\ e.delay > 0) =>
                   /\ \A j \in 1..Len(entities'[p]) :
                         entities'[p][j].entity_id = e.entity_id =>
                            /\ entities'[p][j].x = e.x
                            /\ entities'[p][j].y = e.y
                            /\ entities'[p][j].state = "idle"
                            /\ entities'[p][j].cooldown = 0
                   /\ EntityExecute(i, BeforeExecuteOf(p, i))
                         = BeforeExecuteOf(p, i)]_vars

\* C13, its case: a troop has come through a tick to the last tick of its
\* delay window, and a hostile troop stands within its range
C13_Witness ==
    \E p \in Peers : \E i, k \in 1..Len(entities[p]) :
        /\ total_ticks[p] > CombatStartTicks
        /\ entities[p][i].type = "troop"
        /\ entities[p][i].delay = TickTime
        /\ entities[p][k].type = "troop"
        /\ entities[p][k].owner # entities[p][i].owner
        /\ troop_in_range(entities[p][i], entities[p][k])

\* the projectiles of a list
IsProjectile(e) == e.type = "projectile"

\* C14: every projectile on a board is active and younger than
\* max_duration, its elapsed_time being tick_time for each tick since the
\* one that created it: it leaves the board no later than 125 ticks after
\* its creation, whatever happens to its target
C14_ProjectileLifetime ==
    [][\A p \in Peers :
          total_ticks'[p] = total_ticks[p] + 1 =>
             \A j \in 1..Len(entities'[p]) :
                LET e == entities'[p][j] IN
                IsProjectile(e) =>
                   /\ e.active
                   /\ e.elapsed_time < MaxDuration
                   /\ \A i \in 1..Len(entities[p]) :
                         entities[p][i].entity_id = e.entity_id =>
                            e.elapsed_time
                               = entities[p][i].elapsed_time + TickTime
                   /\ (\A i \in 1..Len(entities[p]) :
                          entities[p][i].entity_id # e.entity_id)
                         => e.elapsed_time = 0]_vars

\* C14, its case: a projectile whose target has left the board is one tick
\* short of max_duration
C14_Witness ==
    \E p \in Peers : \E i \in 1..Len(entities[p]) :
        /\ IsProjectile(entities[p][i])
        /\ entities[p][i].elapsed_time = MaxDuration - TickTime
        /\ entities[p][i].target # Nothing
        /\ TargetIndex(entities[p][i], entities[p]) = 0

\* the lateral towers of the owner of tower t on the list
LateralsOf(t, ents) ==
    {i \in 1..Len(ents) : /\ ents[i].type = "tower"
                          /\ ents[i].kind = "lateral"
                          /\ ents[i].owner = t.owner}

\* a central tower with its full life and both lateral towers of its owner
Sheltered(t, ents) ==
    /\ t.type = "tower"
    /\ t.kind = "central"
    /\ t.life = t.max_life
    /\ Cardinality(LateralsOf(t, ents)) = 2

\* C15: a tick that finds a central tower undamaged and both lateral
\* towers of its owner alive leaves it Idle and without a target, and its
\* execute emits no projectile, also with hostile troops in its range
C15_ShelteredCentralIdle ==
    [][\A p \in Peers :
          total_ticks'[p] = total_ticks[p] + 1 =>
             \A i \in 1..Len(entities[p]) :
                Sheltered(entities[p][i], entities[p]) =>
                   /\ \A j \in 1..Len(entities'[p]) :
                         entities'[p][j].entity_id = entities[p][i].entity_id
                            => /\ entities'[p][j].state = "idle"
                               /\ entities'[p][j].target = Nothing
                   /\ EntityExecute(i, BeforeExecuteOf(p, i)).new_entities
                         = BeforeExecuteOf(p, i).new_entities]_vars

\* C15, its case: after a tick a hostile troop stands in the range of an
\* undamaged central tower whose lateral towers are both alive
C15_Witness ==
    \E p \in Peers : \E i, k \in 1..Len(entities[p]) :
        /\ total_ticks[p] > CombatStartTicks
        /\ Sheltered(entities[p][i], entities[p])
        /\ k \in Hostile(entities[p][i], entities[p])
        /\ entities[p][k].type = "troop"
        /\ tower_in_range(entities[p][i], entities[p][k])

\* C16 as stated: once a lateral tower of a player is destroyed, a tick
\* that finds a hostile troop in the range of that player's central tower
\* leaves the central tower with a target, also when the central tower
\* has never been damaged
C16_CentralWakesAfterLateralLoss ==
    [][\A p \in Peers :
          total_ticks'[p] = total_ticks[p] + 1 =>
             \A i \in 1..Len(entities[p]) :
                LET t == entities[p][i] IN
                (/\ t.type = "tower"
                 /\ t.kind = "central"
                 /\ Cardinality(LateralsOf(t, entities[p])) < 2
                 /\ \E k \in Hostile(t, entities[p]) :
                       /\ entities[p][k].type = "troop"
                       /\ tower_in_range(t, entities[p][k])) =>
                   \A j \in 1..Len(entities'[p]) :
                      entities'[p][j].entity_id = t.entity_id
                         => entities'[p][j].target # Nothing]_vars

\* the list in the opposite order
Reverse(ents) == [k \in 1..Len(ents) |-> ents[Len(ents) + 1 - k]]

\* what a tick leaves of a board, without the order of the list: the life,
\* active flag and cooldown of every tower and troop, and the projectiles
\* by kind, owner, age and target
Outcome(ents) ==
    {IF IsProjectile(ents[i])
     THEN [kind |-> ents[i].kind, owner |-> ents[i].owner, life |-> 0,
           active |-> ents[i].active, cooldown |-> 0,
           elapsed_time |-> ents[i].elapsed_time, of |-> The(ents[i].target)]
     ELSE [kind |-> ents[i].kind, owner |-> ents[i].owner,
           life |-> ents[i].life, active |-> ents[i].active,
           cooldown |-> ents[i].cooldown, elapsed_time |-> 0,
           of |-> ents[i].entity_id] : i \in 1..Len(ents)}

\* C19 as stated: a tick of a board gives the same lives, active flags,
\* cooldowns and projectiles whatever the order in which the entities are
\* iterated; here the order of the list against the opposite order
C19_TickOrderIndependent ==
    \A p \in Peers :
        Outcome(BoardUpdate(entities[p], next_entity_id[p]).ents)
            = Outcome(BoardUpdate(Reverse(entities[p]),
                                  next_entity_id[p]).ents)

\* the fields of an entity that no update method assigns
Untouched(e) ==
    [entity_id |-> e.entity_id, type |-> e.type, kind |-> e.kind,
     owner |-> e.owner, x |-> e.x, y |-> e.y, life |-> e.life,
     max_life |-> e.max_life, damage |-> e.damage, speed |-> e.speed,
     elapsed_time |-> e.elapsed_time, reached_target |-> e.reached_target]

\* C20: the update pass of a tick keeps the list and, of every entity, its
\* life and position: it writes only target, cooldown, state, delay,
\* active, the cached target position and the victim list
C20_UpdatePassFrame ==
    \A p \in Peers :
        LET updated == UpdatePass(entities[p], 1) IN
        /\ Len(updated) = Len(entities[p])
        /\ \A i \in 1..Len(updated) :
              Untouched(updated[i]) = Untouched(entities[p][i])

\* C20, its case: after a tick, the update pass of the next one resets a
\* tower's cooldown and gives an area projectile near its target a victim
C20_Witness ==
    \E p \in Peers :
        LET updated == UpdatePass(entities[p], 1) IN
        /\ total_ticks[p] > CombatStartTicks
        /\ \E i \in 1..Len(updated) :
              /\ TowerOrTroop(updated[i])
              /\ updated[i].cooldown # entities[p][i].cooldown
        /\ \E i \in 1..Len(updated) :
              /\ updated[i].kind = "AreaProjectile"
              /\ updated[i].troops_hit # entities[p][i].troops_hit

\* ------------------------------------------------------ clock handshake
\* the instants connect_as_peer_client reads on the client's clock, and the
\* host's reading
HandshakeT1 == Epoch + ClientSkew - requestLeg
HandshakeT3 == Epoch + ClientSkew + replyLeg
HandshakeHostTime == Epoch

\* C21: the host's time_offset stays 0; once the handshake is done the
\* client's time_offset is host_time - (t1 + (t3 - t1) / 2) (stated doubled,
\* without the division), and at every real instant the synced clocks of the
\* two peers differ by at most rtt / 2, whatever the split of the round trip
\* into its two legs.
C21_OffsetWithinHalfRtt ==
    /\ time_offset[Host] = 0
    /\ ~connected[Client] => time_offset[Client] = 0
    /\ connected[Client] =>
         /\ 2 * time_offset[Client] =
                2 * HandshakeHostTime - (HandshakeT1 + HandshakeT3)
         /\ 2 * (get_synced_time(Host) - get_synced_time(Client))
                <= HandshakeT3 - HandshakeT1
         /\ 2 * (get_synced_time(Client) - get_synced_time(Host))
                <= HandshakeT3 - HandshakeT1

\* a handshake with an asymmetric split has completed and time has passed:
\* the synced clocks differ, by exactly half the round trip
C21_Witness ==
    /\ connected[Client]
    /\ requestLeg > replyLeg
    /\ now > replyLeg
    /\ time_offset[Client] # 0
    /\ 2 * (get_synced_time(Client) - get_synced_time(Host))
           = HandshakeT3 - HandshakeT1

\* ------------------------------------------------- connection attempts
\* Clash.try_connection: the attempts its loop makes
MaxTries == 5

\* both processes constructed (Clash.__init__), neither has called
\* try_connection yet; the steps of the connection phase are ordered but not
\* timed, and the handshake datagrams take no time
InitConnect ==
    /\ now = 0
    /\ requestLeg = 0
    /\ replyLeg = 0
    /\ rollback_system = RollbackSystem
    /\ tries = [p \in Peers |-> 0]
    /\ exit_code = [p \in Peers |-> Nothing]
    /\ sorting = [p \in Peers |-> Nothing]
    /\ connected = [p \in Peers |-> FALSE]
    /\ time_offset = [p \in Peers |-> 0]
    /\ game_start_time = [p \in Peers |-> 0]
    /\ total_ticks = [p \in Peers |-> 0]
    /\ simulation_time = [p \in Peers |-> 0]
    /\ events = [p \in Peers |-> <<>>]
    /\ entities = [p \in Peers |-> setup_towers]
    /\ next_entity_id = [p \in Peers |-> Len(setup_towers)]
    /\ selected_card = [p \in Peers |-> Nothing]
    /\ elixir = [p \in Peers |-> 0]
    /\ elixir_used = [p \in Peers |-> 0]
    /\ elixir_wasted = [p \in Peers |-> 0]
    /\ last_update_time = [p \in Peers |-> 0]
    /\ deck \in DeckAssignments
    /\ loop_started = [p \in Peers |-> FALSE]
    /\ frame_time = [p \in Peers |-> -1]
    /\ network = {}
    /\ applied = [p \in Peers |-> <<>>]
    /\ received = [p \in Peers |-> <<>>]
    /\ last_click = NoClick
    /\ nplaced = 0

\* what the connection phase never touches
ConnectUnchanged ==
    UNCHANGED <<now, requestLeg, replyLeg, rollback_system, sorting, simulation_time, events,
                entities, next_entity_id, selected_card, elixir_used,
                elixir_wasted, last_update_time, deck, frame_time, network,
                applied, received, last_click, nplaced>>

\* P2P.broadcast_host is advertising the host: start_peer_host has run, and
\* listen_for_clients has not yet set stop_broadcast
Broadcasting ==
    /\ tries[Host] >= 1
    /\ ~connected[Host]
    /\ exit_code[Host] = Nothing

\* peer p is inside try_connection's while loop
Trying(p) ==
    /\ ~connected[p]
    /\ exit_code[p] = Nothing
    /\ tries[p] < MaxTries

\* one turn of the host's loop: make_connection (start_peer_host), tries += 1
\* and, nobody having connected, the 2 s delay
HostAttempt ==
    /\ Trying(Host)
    /\ tries' = [tries EXCEPT ![Host] = @ + 1]
    /\ UNCHANGED <<connected, time_offset, game_start_time, total_ticks,
                   elixir, loop_started, exit_code>>
    /\ ConnectUnchanged

\* the client's make_connection when get_hosts comes back empty (no host is
\* broadcasting, or its broadcasts were not heard): sys.exit(1) at once
ClientNoHosts ==
    /\ Trying(Client)
    /\ exit_code' = [exit_code EXCEPT ![Client] = Some(1)]
    /\ UNCHANGED <<connected, time_offset, game_start_time, total_ticks,
                   elixir, loop_started, tries>>
    /\ ConnectUnchanged

\* Clash.on_connect run by the host's listen_for_clients
HostOnConnect ==
    /\ game_start_time' = [game_start_time EXCEPT ![Host] = get_synced_time(Host)]
    /\ elixir' = [elixir EXCEPT ![Host] = InitialElixir * ElixirScale]
    /\ total_ticks' = [total_ticks EXCEPT ![Host] = 0]

\* one turn of the client's loop with a host found: connect_as_peer_client
\* sends the request; with request_lost the host never sees it, with
\* reply_lost the host connects but the client times out; either way the
\* client counts the try and waits 2 s
ClientTimeout(reply_lost) ==
    /\ Trying(Client)
    /\ Broadcasting
    /\ tries' = [tries EXCEPT ![Client] = @ + 1]
    /\ IF reply_lost
       THEN /\ connected' = [connected EXCEPT ![Host] = TRUE]
            /\ HostOnConnect
       ELSE UNCHANGED <<connected, game_start_time, elixir, total_ticks>>
    /\ UNCHANGED <<time_offset, loop_started, exit_code>>
    /\ ConnectUnchanged

\* one turn of the client's loop with a host found and the handshake
\* answered: on_connect on both sides; the client's loop ends and Clash.run
\* goes on
ClientConnects ==
    /\ Trying(Client)
    /\ Broadcasting
    /\ tries' = [tries EXCEPT ![Client] = @ + 1]
    /\ connected' = [p \in Peers |-> TRUE]
    /\ time_offset' = [time_offset EXCEPT ![Client] = client_time_offset]
    /\ game_start_time' =
           [p \in Peers |-> IF p = Host THEN get_synced_time(Host)
                            ELSE local_time(Client) + client_time_offset]
    /\ elixir' = [p \in Peers |-> InitialElixir * ElixirScale]
    /\ total_ticks' = [p \in Peers |-> 0]
    /\ loop_started' = [loop_started EXCEPT ![Client] = TRUE]
    /\ UNCHANGED exit_code
    /\ ConnectUnchanged

\* try_connection after its loop: not connected, so sys.exit(1)
GiveUp(p) ==
    /\ ~connected[p]
    /\ exit_code[p] = Nothing
    /\ tries[p] = MaxTries
    /\ exit_code' = [exit_code EXCEPT ![p] = Some(1)]
    /\ UNCHANGED <<connected, time_offset, game_start_time, total_ticks,
                   elixir, loop_started, tries>>
    /\ ConnectUnchanged

NextConnect ==
    \/ HostAttempt
    \/ ClientNoHosts
    \/ \E reply_lost \in BOOLEAN : ClientTimeout(reply_lost)
    \/ ClientConnects
    \/ \E p \in Peers : GiveUp(p)
    \/ StartLoopHost

SpecConnect == InitConnect /\ [][NextConnect]_vars

\* C22: a client that finds no host does not give up on its first failed
\* attempt: it leaves with code 1 only after five tries.
C22_ExitOnlyAfterFiveTries ==
    exit_code[Client] = Some(1) => tries[Client] = MaxTries

\* ------------------------------------- the receiver thread's add_event
\* Clash.on_receive runs on the thread of P2P.listen_for_events and calls
\* GameTimeline.add_event with no lock. list.sort empties the list while it
\* works (the items are held by the sort and the key lambda runs with the
\* list empty), so the main thread may be scheduled while self.events is
\* empty; the sort then stores its sorted items back, whatever the list held
\* in the meantime (the ValueError "list modified during sort" is swallowed
\* by listen_for_events).

\* a handshake that took no time
InitThreads ==
    /\ Init
    /\ requestLeg = 0
    /\ replyLeg = 0
    /\ rollback_system = RollbackSystem

\* on_receive up to the middle of add_event's sort: the event is appended,
\* the sort holds the items and the list is empty
on_receive_begin(d) ==
    /\ d \in network
    /\ connected[d.to]
    /\ now = d.arrival
    /\ sorting[d.to] = Nothing
    /\ sorting' = [sorting EXCEPT
                     ![d.to] = Some(add_event(events[d.to], from_json(d.data)))]
    /\ events' = [events EXCEPT ![d.to] = <<>>]
    /\ received' = [received EXCEPT ![d.to] = Append(@,
           [uid |-> from_json(d.data).uid,
            aparition_time |-> from_json(d.data).aparition_time,
            simulation_time |-> simulation_time[d.to],
            latency |-> now - d.sentAt])]
    /\ network' = network \ {d}
    /\ last_click' = NoClick
    /\ UNCHANGED <<now, requestLeg, replyLeg, rollback_system, tries, exit_code, connected,
                   time_offset, game_start_time, total_ticks, simulation_time,
                   entities, next_entity_id, selected_card, elixir, elixir_used,
                   elixir_wasted, last_update_time, deck, loop_started,
                   frame_time, applied, nplaced>>

\* the sort returns: the list gets the sorted items back
on_receive_end(p) ==
    /\ sorting[p] # Nothing
    /\ events' = [events EXCEPT ![p] = The(sorting[p])]
    /\ sorting' = [sorting EXCEPT ![p] = Nothing]
    /\ last_click' = NoClick
    /\ UNCHANGED <<now, requestLeg, replyLeg, rollback_system, tries, exit_code, connected,
                   time_offset, game_start_time, total_ticks, simulation_time,
                   entities, next_entity_id, selected_card, elixir, elixir_used,
                   elixir_wasted, last_update_time, deck, loop_started,
                   frame_time, network, applied, received, nplaced>>

\* real time passes between sorts, not during one
AdvanceTimeThreads ==
    /\ \A p \in Peers : sorting[p] = Nothing
    /\ AdvanceTime

\* two peers playing, the receiver thread's add_event interleaved with the
\* main thread
NextThreads ==
    \/ OnConnectClient
    \/ StartLoopHost
    \/ AdvanceTimeThreads
    \/ \E p \in Peers : Update(p)
    \/ \E p \in Peers : \E q \in PlaceQueues(p) : \E l \in Latencies :
           handle_inputs(p, q, l)
    \/ \E d \in network : on_receive_begin(d)
    \/ \E p \in Peers : on_receive_end(p)
    \/ \E d \in network : discard_unbound(d)

SpecThreads == InitThreads /\ [][NextThreads]_vars

\* the events peer p's timeline held before the receiver thread's pending
\* add_event, if any, began
HeldBefore(p) ==
    IF sorting[p] = Nothing THEN events[p]
    ELSE SelectSeq(The(sorting[p]),
                   LAMBDA e : e.uid # received[p][Len(received[p])].uid)

\* the step executes ticks on peer p and the windows of those ticks cover
\* aparition time t
TicksCover(p, t) ==
    /\ total_ticks'[p] > total_ticks[p]
    /\ simulation_time[p] <= t
    /\ t <= simulation_time'[p]

\* C23: the receiver thread never changes the event list under a running
\* tick, so a tick's range query never misses an event that was already in
\* the timeline: every event the timeline held whose aparition_time falls
\* in the window of a tick is applied by the frame that executes that tick.
C23_TickSeesTimeline ==
    [][\A p \in Peers : \A i \in DOMAIN HeldBefore(p) :
          TicksCover(p, HeldBefore(p)[i].aparition_time)
          => \E j \in DOMAIN applied'[p] :
                /\ j > Len(applied[p])
                /\ applied'[p][j].uid = HeldBefore(p)[i].uid]_vars

\* ------------------------------------------------- frames that fall behind
\* the host's try_connection sees connected only when its 2 s delay ends:
\* Clash.run enters its loop some time after the handshake
StartLoopHostLate ==
    /\ connected[Host]
    /\ ~loop_started[Host]
    /\ loop_started' = [loop_started EXCEPT ![Host] = TRUE]
    /\ last_click' = NoClick
    /\ UNCHANGED <<now, requestLeg, replyLeg, rollback_system, tries, exit_code, sorting,
                   connected, time_offset, game_start_time, total_ticks,
                   simulation_time, events, entities, next_entity_id,
                   selected_card, elixir, elixir_used, elixir_wasted,
                   last_update_time, deck, frame_time, network, applied,
                   received, nplaced>>

\* real time passes whether or not the main loops have rendered a frame in
\* the current unit (a frame may take any time)
PassTime ==
    /\ now < MaxTime
    /\ now = replyLeg => connected[Client]
    /\ now' = now + 1
    /\ last_click' = NoClick
    /\ UNCHANGED <<requestLeg, replyLeg, rollback_system, tries, exit_code, sorting, connected,
                   time_offset, game_start_time, total_ticks, simulation_time,
                   events, entities, next_entity_id, selected_card, elixir,
                   elixir_used, elixir_wasted, last_update_time, deck,
                   loop_started, frame_time, network, applied, received,
                   nplaced>>

\* two connected peers whose frames come at any pace
NextCatchUp ==
    \/ OnConnectClient
    \/ StartLoopHostLate
    \/ PassTime
    \/ \E p \in Peers : Update(p)

SpecCatchUp == Init /\ [][NextCatchUp]_vars

\* C24: after a frame's update (the peer has rendered in the current time
\* unit) the peer has executed floor((synced_now - game_start) / tick_dt)
\* ticks in total, however many were due, and at all times simulation_time
\* is total_ticks * tick_dt.
C24_FrameCatchesUp ==
    \A p \in Peers :
        /\ simulation_time[p] = total_ticks[p] * TickTime
        /\ (loop_started[p] /\ frame_time[p] = now) =>
              /\ total_ticks[p] * TickTime
                     <= get_synced_time(p) - game_start_time[p]
              /\ get_synced_time(p) - game_start_time[p]
                     < (total_ticks[p] + 1) * TickTime

\* a peer's first frame (the elixir still at its initial value) came late
\* and executed three or more ticks at once, while the other peer's loop
\* has run frames of its own
C24_Witness ==
    \E p \in Peers :
        /\ loop_started[p]
        /\ frame_time[p] = now
        /\ total_ticks[p] >= 3
        /\ elixir[p] = InitialElixir * ElixirScale
        /\ last_update_time[p] = get_synced_time(p)
        /\ total_ticks[Other(p)] > 0
        /\ total_ticks[Other(p)] < total_ticks[p]

\* C25: the two peers record the same synced instant as game start, so
\* whenever their synced clocks read the same and both have rendered their
\* frame, they have executed the same number of ticks.
C25_SameStartSameTicks ==
    (connected[Host] /\ connected[Client]) =>
        /\ game_start_time[Host] = game_start_time[Client]
        /\ (/\ get_synced_time(Host) = get_synced_time(Client)
            /\ \A p \in Peers : loop_started[p] /\ frame_time[p] = now)
           => total_ticks[Host] = total_ticks[Client]

\* -------------------------------------- events of an unknown entity type
\* the entity_type names a peer's datagrams may carry: the three troops of
\* this build, and one it does not know
EventKinds == TroopKinds \cup {"Dragon"}

\* a spawn_unit datagram for peer `to`, as its peer's send_data builds it at
\* real time sentAt, with any entity_type
SpawnDatagram(to, entity_type, k, sentAt) ==
    [to |-> to,
     data |-> to_json(Event("spawn_unit", sentAt, EventDelay,
                            [entity_type |-> entity_type,
                             grid_position |-> IF to = Host THEN <<3, 20>>
                                               ELSE <<3, 8>>,
                             player_id |-> Other(to)],
                            <<Other(to), k>>)),
     timestamp |-> Epoch + sentAt, sentAt |-> sentAt, arrival |-> sentAt]

\* Both peers connected over a handshake without latency, their loops
\* running; two datagrams are on their way to one of them, the second sent
\* one tick after the first
InitForeign ==
    /\ now = 0
    /\ requestLeg = 0
    /\ replyLeg = 0
    /\ rollback_system = RollbackSystem
    /\ tries = [p \in Peers |-> 1]
    /\ exit_code = [p \in Peers |-> Nothing]
    /\ sorting = [p \in Peers |-> Nothing]
    /\ connected = [p \in Peers |-> TRUE]
    /\ time_offset = [p \in Peers |-> IF p = Host THEN 0 ELSE -ClientSkew]
    /\ game_start_time = [p \in Peers |-> Epoch]
    /\ total_ticks = [p \in Peers |-> 0]
    /\ simulation_time = [p \in Peers |-> 0]
    /\ events = [p \in Peers |-> <<>>]
    /\ entities = [p \in Peers |-> setup_towers]
    /\ next_entity_id = [p \in Peers |-> Len(setup_towers)]
    /\ selected_card = [p \in Peers |-> Nothing]
    /\ elixir = [p \in Peers |-> InitialElixir * ElixirScale]
    /\ elixir_used = [p \in Peers |-> 0]
    /\ elixir_wasted = [p \in Peers |-> 0]
    /\ last_update_time = [p \in Peers |-> 0]
    /\ deck \in DeckAssignments
    /\ loop_started = [p \in Peers |-> TRUE]
    /\ frame_time = [p \in Peers |-> -1]
    /\ \E to \in Peers : \E k1 \in EventKinds : \E k2 \in EventKinds :
           network = {SpawnDatagram(to, k1, 1, 1),
                      SpawnDatagram(to, k2, 2, 1 + TickTime)}
    /\ applied = [p \in Peers |-> <<>>]
    /\ received = [p \in Peers |-> <<>>]
    /\ last_click = NoClick
    /\ nplaced = 0

\* frames and the arrival of the datagrams
NextForeign ==
    \/ AdvanceTime
    \/ \E p \in Peers : Update(p)
    \/ \E d \in network : on_receive(d)

SpecForeign == InitForeign /\ [][NextForeign]_vars

\* the events of peer p's timeline whose entity_type this build knows
KnownEvents(p) ==
    SelectSeq(events[p], LAMBDA e : e.data.entity_type \in TroopKinds)

\* the events of peer p's timeline whose window has passed
PastEvents(p) ==
    SelectSeq(events[p],
              LAMBDA e : e.aparition_time + TickTime < simulation_time[p])

\* C26: a spawn_unit event of an unknown entity_type is a no-op: the board
\* gains an entity only for events of a known type (every applied event is
\* of a known type and stands for one entity of that type), and the ticks
\* after it go on as usual: the known events that follow are applied.
C26_UnknownTypeIsNoOp ==
    \A p \in Peers :
        /\ Len(entities[p]) = Len(setup_towers) + Len(applied[p])
        /\ \A j \in DOMAIN applied[p] :
              \E i \in DOMAIN KnownEvents(p) :
                  /\ KnownEvents(p)[i].uid = applied[p][j].uid
                  /\ \E n \in DOMAIN entities[p] :
                        /\ entities[p][n].entity_id = applied[p][j].entity_id
                        /\ entities[p][n].kind = KnownEvents(p)[i].data.entity_type
        /\ \A i \in DOMAIN PastEvents(p) :
              PastEvents(p)[i].data.entity_type \in TroopKinds
              => \E j \in DOMAIN applied[p] :
                    applied[p][j].uid = PastEvents(p)[i].uid

\* a peer's ticks have passed an event of an unknown type, which left no
\* entity, and the known event that followed it has spawned its troop
C26_Witness ==
    \E p \in Peers :
        /\ \E i \in DOMAIN PastEvents(p) :
              /\ PastEvents(p)[i].data.entity_type \notin TroopKinds
              /\ PastEvents(p)[i].uid = <<Other(p), 1>>
        /\ \E j \in DOMAIN applied[p] : applied[p][j].uid = <<Other(p), 2>>
        /\ Len(entities[p]) = Len(setup_towers) + 1

\* ------------------------------------------------ ties in the timeline
\* the identities of the events of a timeline, in list order
Uids(evs) == [i \in DOMAIN evs |-> evs[i].uid]

\* the events of evs are the events of other, in some order
SameEvents(evs, other) ==
    /\ Len(evs) = Len(other)
    /\ \A i \in DOMAIN evs : \E j \in DOMAIN other : other[j].uid = evs[i].uid

\* C27: events of equal aparition_time stand in the timeline (and so are
\* applied by their tick) owner ascending, then in insertion order; two
\* timelines holding the same events therefore hold them in the same
\* order, whichever of them was inserted first on each peer.
C27_TiesByOwner ==
    /\ \A p \in Peers : \A i \in DOMAIN events[p] : \A j \in DOMAIN events[p] :
          (i < j /\ events[p][i].aparition_time = events[p][j].aparition_time)
          => ~(events[p][i].data.player_id = "2"
               /\ events[p][j].data.player_id = "1")
    /\ SameEvents(events[Host], events[Client])
       => Uids(events[Host]) = Uids(events[Client])

\* ------------------------------------------------- a channel that drops
\* the datagram channel (UDP) loses a game datagram: send_data's one sendto
\* is all the sender does, nothing acknowledges or repeats it
drop(d) ==
    /\ d \in network
    /\ network' = network \ {d}
    /\ last_click' = NoClick
    /\ UNCHANGED <<now, requestLeg, replyLeg, rollback_system, tries, exit_code, sorting,
                   connected, time_offset, game_start_time, total_ticks,
                   simulation_time, events, entities, next_entity_id,
                   selected_card, elixir, elixir_used, elixir_wasted,
                   last_update_time, deck, loop_started, frame_time, applied,
                   received, nplaced>>

\* two peers playing over a channel that may drop
NextLossy ==
    \/ Next
    \/ \E d \in network : drop(d)

SpecLossy == InitThreads /\ [][NextLossy]_vars

\* C28: delivery is reliable: every spawn event a peer accepted and sent is
\* eventually added to the other peer's timeline, so at no time is such an
\* event lost: while the other timeline lacks it, its datagram is still on
\* its way.
C28_SentEventNotLost ==
    \A p \in Peers : \A i \in DOMAIN events[p] :
        events[p][i].data.player_id = p
        => \/ \E j \in DOMAIN events[Other(p)] :
                 events[Other(p)][j].uid = events[p][i].uid
           \/ \E d \in network : d.to = Other(p) /\ d.data.uid = events[p][i].uid

\* ------------------------------------------- the order inside a tick
\* the event of peer p's timeline that the log entry a stands for
EventOf(p, a) ==
    CHOOSE e \in {events[p][i] : i \in DOMAIN events[p]} : e.uid = a.uid

\* the ticks peer p has executed after the tick of log entry a
TicksSince(p, a) == total_ticks[p] - a.tick - 1

\* the delay of a troop that Board.update has met n times since it spawned
DelayAfter(n) ==
    IF TroopDelay - n * TickTime > 0 THEN TroopDelay - n * TickTime ELSE 0

\* C29 as stated: execute_tick first adds tick_dt to sim_time, then advances
\* the board, then applies the events of [sim_time, sim_time + tick_dt] taken
\* with the increased sim_time: the tick numbered t (t ticks done before it)
\* applies the events of [(t + 1) tick_dt, (t + 2) tick_dt].
C29_TimeFirst ==
    \A p \in Peers : \A j \in DOMAIN applied[p] :
        /\ (applied[p][j].tick + 1) * TickTime
               <= EventOf(p, applied[p][j]).aparition_time
        /\ EventOf(p, applied[p][j]).aparition_time
               <= (applied[p][j].tick + 2) * TickTime

\* C29 amended: execute_tick first advances the board, then applies the
\* events of [sim_time, sim_time + tick_dt] taken with the sim_time of the
\* start of the tick, and last adds tick_dt to sim_time: the tick numbered t
\* applies the events of [t tick_dt, (t + 1) tick_dt], and a troop it spawns
\* is first met by the board update of the next tick.
C29_BoardEventsTime ==
    \A p \in Peers : \A j \in DOMAIN applied[p] :
        /\ applied[p][j].tick * TickTime
               <= EventOf(p, applied[p][j]).aparition_time
        /\ EventOf(p, applied[p][j]).aparition_time
               <= (applied[p][j].tick + 1) * TickTime
        /\ applied[p][j].tick < total_ticks[p]
        /\ simulation_time[p] = total_ticks[p] * TickTime
        /\ \A n \in DOMAIN entities[p] :
              entities[p][n].entity_id = applied[p][j].entity_id
              => entities[p][n].delay = DelayAfter(TicksSince(p, applied[p][j]))

\* a tick has spawned a troop from an event strictly inside its window, and
\* a later tick has updated the troop once
C29_Witness ==
    \E p \in Peers : \E j \in DOMAIN applied[p] :
        /\ applied[p][j].tick * TickTime < EventOf(p, applied[p][j]).aparition_time
        /\ TicksSince(p, applied[p][j]) = 1
        /\ \E n \in DOMAIN entities[p] :
              /\ entities[p][n].entity_id = applied[p][j].entity_id
              /\ entities[p][n].delay = TroopDelay - TickTime

\* ------------------------------------------------ a troop's update
\* a troop that Troop.update takes past its first two returns
ReadyTroop(e) == e.type = "troop" /\ e.delay <= 0 /\ e.life > 0

\* the target e holds is on the board, alive, active, hostile and in range
HeldTargetGood(e, ents) ==
    /\ e.target # Nothing
    /\ TargetIndex(e, ents) # 0
    /\ ents[TargetIndex(e, ents)].life > 0
    /\ ents[TargetIndex(e, ents)].active
    /\ ents[TargetIndex(e, ents)].owner # e.owner
    /\ troop_in_range(e, ents[TargetIndex(e, ents)])

\* the target e holds is dead or inactive (a dropped one is both)
HeldTargetGone(e, ents) ==
    /\ e.target # Nothing
    /\ \/ TargetIndex(e, ents) = 0
       \/ ents[TargetIndex(e, ents)].life <= 0
       \/ ~ents[TargetIndex(e, ents)].active

\* C30: the update of a troop with its delay expired and life > 0 leaves it
\* Attacking iff the target it held is alive, active, hostile and in range,
\* and Moving otherwise; a dead or inactive target is let go, and the target
\* the troop holds afterwards, if any, is a living active hostile one.
C30_TroopUpdateState ==
    \A p \in Peers : \A i \in 1..Len(entities[p]) :
        ReadyTroop(entities[p][i]) =>
            /\ UpdatePass(entities[p], 1)[i].state =
                  (IF HeldTargetGood(entities[p][i], entities[p])
                   THEN "attacking" ELSE "moving")
            /\ HeldTargetGone(entities[p][i], entities[p]) =>
                  UpdatePass(entities[p], 1)[i].target # entities[p][i].target
            /\ UpdatePass(entities[p], 1)[i].target # Nothing =>
                  /\ ~HeldTargetGone(UpdatePass(entities[p], 1)[i], entities[p])
                  /\ entities[p][TargetIndex(UpdatePass(entities[p], 1)[i],
                                             entities[p])].owner
                        # entities[p][i].owner

\* on one board, a troop whose held target is in range and alive, which its
\* update leaves Attacking, and a troop whose held target has died, which
\* its update leaves Moving
C30_Witness ==
    \E p \in Peers : \E i, k \in 1..Len(entities[p]) :
        /\ ReadyTroop(entities[p][i])
        /\ HeldTargetGood(entities[p][i], entities[p])
        /\ UpdatePass(entities[p], 1)[i].state = "attacking"
        /\ ReadyTroop(entities[p][k])
        /\ HeldTargetGone(entities[p][k], entities[p])
        /\ UpdatePass(entities[p], 1)[k].state = "moving"

\* ------------------------------------------------------ attack cadence
\* the entities an execute adds: after is the board after it, before the
\* board before it
Emitted(before, after) ==
    Len(after.new_entities) - Len(before.new_entities)

\* the entities whose life an execute changes
Struck(before, after) ==
    {k \in 1..Len(before.ents) : after.ents[k].life # before.ents[k].life}

\* the cooldown the entity with the given id has on peer p's next board
\* (the set is empty when the board dropped it)
CooldownAfter(p, id) ==
    {entities'[p][j].cooldown :
        j \in {j \in 1..Len(entities'[p]) : entities'[p][j].entity_id = id}}

\* the tick about to run on peer p's board, seen from the tower or troop e
\* at position i: one attack at most, only with the cooldown run down to
\* tick_dt or less, and the cooldown set to hit_speed by it; a cooldown
\* above zero falls by tick_dt at most
CadenceOf(p, e, before, after) ==
    /\ Emitted(before, after) + Cardinality(Struck(before, after)) <= 1
    /\ e.cooldown <= hit_speed(e)
    /\ (Emitted(before, after) > 0 \/ Struck(before, after) # {}) =>
          /\ e.cooldown <= TickTime
          /\ \A c \in CooldownAfter(p, e.entity_id) : c = hit_speed(e)
    /\ e.cooldown > 0 =>
          \A c \in CooldownAfter(p, e.entity_id) : c >= e.cooldown - TickTime

\* C31: a tower or troop emits at most one attack per tick, and hit_speed of
\* simulated time lies between two attacks of the same entity.  The entity's
\* timer is its cooldown: an attack happens only in a tick that finds the
\* cooldown at tick_dt or less, it sets the cooldown to hit_speed, and a
\* cooldown above zero falls by at most tick_dt per tick (never set back by a
\* change of target or state), so ceil(hit_speed / tick_dt) ticks pass
\* before the next attack.
C31_AttackCadence ==
    [][\A p \in Peers :
          total_ticks'[p] = total_ticks[p] + 1 =>
             \A i \in 1..Len(entities[p]) :
                TowerOrTroop(entities[p][i]) =>
                   LET before == BeforeExecuteOf(p, i)
                       after == EntityExecute(i, before)
                   IN  CadenceOf(p, entities[p][i], before, after)]_vars

\* an entity whose last attack set its cooldown has waited it out and is
\* about to attack again: a Knight that has already fought for hit_speed
\* strikes in the next tick, and a tower with its cooldown run down shoots
C31_Witness ==
    \E p \in Peers : \E i, k \in 1..Len(entities[p]) :
        /\ entities[p][i].kind = "Caballero"
        /\ entities[p][i].cooldown = TickTime
        /\ total_ticks[p] >= CombatStartTicks
                               + hit_speed(entities[p][i]) \div TickTime
        /\ Struck(BeforeExecuteOf(p, i),
                  EntityExecute(i, BeforeExecuteOf(p, i))) # {}
        /\ entities[p][k].type = "tower"
        /\ entities[p][k].cooldown = TickTime
        /\ Emitted(BeforeExecuteOf(p, k),
                   EntityExecute(k, BeforeExecuteOf(p, k))) = 1

\* ----------------------------------------- specification: troops meeting
MaxDuelTime == 490   \* real time runs from 0 to MaxDuelTime units

\* a troop at (x, y) with the given life and what is left of its delay
\* window, no target chosen yet
FreeTroop(id, entity_type, owner, x, y, life, delay) ==
    [Troop(id, entity_type, 0, 0, owner) EXCEPT
        !.x = x, !.y = y, !.life = life, !.delay = delay]

\* Between two: a Knight of player "2" (entity 9) comes out of its delay
\* window half way between two Knights of player "1" (entities 7 and 8),
\* two cells from each
BetweenTwo(life9, delay9) ==
    << IdleTower(1), IdleTower(2), IdleTower(3),
       IdleTower(4), IdleTower(5), IdleTower(6),
       ActiveTroop(7, "Caballero", "1", 7500, 12500, 1766, "moving", 9, 0),
       ActiveTroop(8, "Caballero", "1", 11500, 12500, 1766, "moving", 9, 0),
       FreeTroop(9, "Caballero", "2", 9500, 12500, life9, delay9) >>

\* Duel: the left lateral towers are gone; a Knight of each player, with
\* the given lives, one cell apart on the left of the board, out of reach
\* of every tower
Duel(life7, life8) ==
    << IdleTower(1), IdleTower(3), IdleTower(4), IdleTower(6),
       FreeTroop(7, "Caballero", "1", 3500, 12500, life7, 0),
       FreeTroop(8, "Caballero", "2", 4500, 12500, life8, 0) >>

\* Splash: player "1"'s Wizard (entity 7) at the left bridge shoots at a
\* Knight of player "2" (entity 8) across the river, three cells ahead of
\* it and one to its right; two more Knights of player "2" (entities 9 and
\* 10) have been placed on the cell behind that Knight and on the cell
\* beside the latter, and are in their delay windows
Splash(delay) ==
    << IdleTower(1), IdleTower(2), IdleTower(3),
       IdleTower(4), IdleTower(5), IdleTower(6),
       ActiveTroop(7, "Mago", "1", 2500, 14500, 755, "attacking", 8, 2),
       FreeTroop(8, "Caballero", "2", 3500, 17500, 1766, delay),
       FreeTroop(9, "Caballero", "2", 3500, 18500, 1766, delay),
       FreeTroop(10, "Caballero", "2", 4500, 18500, 1766, delay) >>

\* Riverside: a Knight of each player in the middle of the board, away
\* from the bridges, two cells from the river on either side of it
Riverside(life7) ==
    << IdleTower(1), IdleTower(2), IdleTower(3),
       IdleTower(4), IdleTower(5), IdleTower(6),
       FreeTroop(7, "Caballero", "1", 9500, 12500, life7, 0),
       FreeTroop(8, "Caballero", "2", 9500, 18500, 1766, 0) >>

\* the boards SpecDuel starts from
DuelScenarios ==
    {BetweenTwo(l9, d9) : l9 \in {300, 1766}, d9 \in {0, TickTime}}
    \cup {Duel(l7, l8) : l7 \in {404, 1766}, l8 \in {404, 1766}}
    \cup {Splash(d) : d \in {TroopDelay - 10, TroopDelay}}
    \cup {Riverside(l7) : l7 \in {404, 1766}}

\* A game in progress, as InitCombat, on one of the boards of DuelScenarios
InitDuel ==
    /\ now = 0
    /\ requestLeg = 0
    /\ replyLeg = 0
    /\ rollback_system = RollbackSystem
    /\ tries = [p \in Peers |-> 1]
    /\ exit_code = [p \in Peers |-> Nothing]
    /\ sorting = [p \in Peers |-> Nothing]
    /\ connected = [p \in Peers |-> TRUE]
    /\ time_offset = [p \in Peers |-> IF p = Host THEN 0 ELSE -ClientSkew]
    /\ game_start_time = [p \in Peers |-> Epoch - TickTime * CombatStartTicks]
    /\ total_ticks = [p \in Peers |-> CombatStartTicks]
    /\ simulation_time = [p \in Peers |-> TickTime * CombatStartTicks]
    /\ events = [p \in Peers |-> <<>>]
    /\ \E s \in DuelScenarios :
          /\ entities = [p \in Peers |-> s]
          /\ next_entity_id = [p \in Peers |-> s[Len(s)].entity_id]
    /\ selected_card = [p \in Peers |-> Nothing]
    /\ elixir = [p \in Peers |-> InitialElixir * ElixirScale]
    /\ elixir_used = [p \in Peers |-> 0]
    /\ elixir_wasted = [p \in Peers |-> 0]
    /\ last_update_time = [p \in Peers |-> Epoch - 1]
    /\ deck \in {dk \in DeckAssignments : dk[Host][0] = "Caballero"}
    /\ loop_started = [p \in Peers |-> TRUE]
    /\ frame_time = [p \in Peers |-> -1]
    /\ network = {}
    /\ applied = [p \in Peers |-> <<>>]
    /\ received = [p \in Peers |-> <<>>]
    /\ last_click = NoClick
    /\ nplaced = 0

\* real time passes: one tick_time, once every peer that is still playing
\* has rendered its frame
DuelFrame ==
    /\ now < MaxDuelTime
    /\ \A p \in Peers :
           win_condition(p, entities[p]) = "continue" => frame_time[p] = now
    /\ now' = now + TickTime
    /\ UNCHANGED <<requestLeg, replyLeg, rollback_system, tries, exit_code,
                   sorting, connected, time_offset,
                   game_start_time, total_ticks, simulation_time, events,
                   entities, next_entity_id, selected_card, elixir, elixir_used,
                   elixir_wasted, last_update_time, deck, loop_started,
                   frame_time, network, applied, received, last_click, nplaced>>

NextDuel ==
    \/ DuelFrame
    \/ \E p \in Peers : Update(p)

SpecDuel == InitDuel /\ [][NextDuel]_vars

\* ---------------------------------------------------- target selection
\* the update loop of Board.update just before it reaches position k
RECURSIVE UpdatedBefore(_, _)
UpdatedBefore(k, ents) ==
    IF k = 1 THEN ents
    ELSE LET seen == UpdatedBefore(k - 1, ents)
         IN  [seen EXCEPT ![k - 1] = EntityUpdate(seen[k - 1], seen)]

\* the entity list is in ascending order of entity_id
AscendingIds(ents) ==
    \A i, j \in 1..Len(ents) : i < j => ents[i].entity_id < ents[j].entity_id

\* position j of the list seen holds a troop or tower that is active and of
\* another owner than e
HostileAt(e, seen, j) ==
    /\ seen[j].type \in {"troop", "tower"}
    /\ seen[j].active
    /\ seen[j].owner # e.owner

\* updated is what Troop.update makes of the troop e on the list seen: a
\* troop past its delay that is not Attacking holds the nearest hostile
\* active troop or tower, the one of smallest entity_id among the nearest
TargetChoice(e, updated, seen) ==
    (e.type = "troop" /\ e.life > 0 /\ e.delay <= 0
     /\ updated.state # "attacking"
     /\ \E j \in 1..Len(seen) : HostileAt(e, seen, j))
       => \E j \in 1..Len(seen) :
             /\ HostileAt(e, seen, j)
             /\ updated.target = Some(seen[j].entity_id)
             /\ \A k \in 1..Len(seen) : HostileAt(e, seen, k) =>
                   \/ Dist2(e, seen[k]) > Dist2(e, seen[j])
                   \/ /\ Dist2(e, seen[k]) = Dist2(e, seen[j])
                      /\ seen[k].entity_id >= seen[j].entity_id

\* C32: a troop that is not Attacking acquires the hostile active troop or
\* tower nearest to it by centroid distance, among equidistant ones the one
\* of smallest entity id, never a projectile; and the entity list of every
\* board is in ascending order of entity id
C32_NearestLowestId ==
    [][\A p \in Peers :
          /\ AscendingIds(entities'[p])
          /\ total_ticks'[p] = total_ticks[p] + 1 =>
                \A i \in 1..Len(entities[p]) :
                   LET seen == UpdatedBefore(i, entities[p])
                   IN  TargetChoice(seen[i], EntityUpdate(seen[i], seen), seen)]_vars

\* the first tick is over: a troop standing between two hostile troops of
\* its row, which were at the same distance when it chose (each of the
\* three has taken one step of 40 since), holds the one of smaller id
C32_Witness ==
    \E p \in Peers : \E i, j, k \in 1..Len(entities[p]) :
        /\ total_ticks[p] = CombatStartTicks + 1
        /\ entities[p][i].type = "troop"
        /\ entities[p][i].state = "moving"
        /\ entities[p][i].target = Some(entities[p][j].entity_id)
        /\ HostileAt(entities[p][i], entities[p], j)
        /\ HostileAt(entities[p][i], entities[p], k)
        /\ entities[p][j].entity_id < entities[p][k].entity_id
        /\ entities[p][j].y = entities[p][i].y
        /\ entities[p][k].y = entities[p][i].y
        /\ entities[p][i].x - entities[p][j].x + 2 * 40
              = entities[p][k].x - entities[p][i].x

\* ------------------------------------------------------- Knight duels
\* positions i and j of the list hold Knights of different owners, each
\* the target of the other
Duelling(ents, i, j) ==
    /\ ents[i].kind = "Caballero"
    /\ ents[j].kind = "Caballero"
    /\ ents[i].owner # ents[j].owner
    /\ ents[i].target = Some(ents[j].entity_id)
    /\ ents[j].target = Some(ents[i].entity_id)

\* the entity of the given id is on the list
OnBoard(ents, id) == \E k \in 1..Len(ents) : ents[k].entity_id = id

\* C33: of two hostile Knights hitting each other, a tick never kills both:
\* when both would reach life <= 0 in the same tick, the one of smaller
\* entity id strikes first and only the other dies, so that after the ninth
\* attack cycle of two full-life Knights exactly one of them is inactive
C33_OneKnightSurvives ==
    [][\A p \in Peers :
          total_ticks'[p] = total_ticks[p] + 1 =>
             \A i, j \in 1..Len(entities[p]) :
                Duelling(entities[p], i, j) =>
                   \/ OnBoard(entities'[p], entities[p][i].entity_id)
                   \/ OnBoard(entities'[p], entities[p][j].entity_id)]_vars

\* ------------------------------------------------------ area damage
\* AreaProjectile.radius of the Wizard's projectile
AreaRadius == (3 * PosScale) \div 2

\* the execute of the area projectile at position i takes the board from
\* before to after and is the one in which it reaches its target position
Lands(i, before, after) ==
    /\ before.ents[i].kind = "AreaProjectile"
    /\ before.ents[i].active
    /\ arrived(after.ents[i])

\* the hostile active troops and towers within the radius of the target
\* position of the area projectile at position i
InBlast(i, ents) ==
    {k \in 1..Len(ents) :
        /\ HostileAt(ents[i], ents, k)
        /\ DistPoint2(ents[k], The(ents[i].target_pos))
              <= AreaRadius * AreaRadius}

\* the landing of the area projectile at position i takes its damage from
\* the life of every entity in the blast, and from no entity more than once
BlastOf(i, before, after) ==
    Lands(i, before, after) =>
       /\ \A k \in InBlast(i, before.ents) :
             after.ents[k].life = before.ents[k].life - before.ents[i].damage
       /\ \A k \in 1..Len(before.ents) :
             after.ents[k].life >= before.ents[k].life - before.ents[i].damage

\* C34: when an AreaProjectile reaches its target position, every hostile
\* active troop or tower within its radius of the target receives the
\* projectile's damage exactly once, and no entity is damaged more than once
\* by the same AreaProjectile
C34_BlastHitsAllInRadius ==
    [][\A p \in Peers :
          total_ticks'[p] = total_ticks[p] + 1 =>
             \A i \in 1..Len(entities[p]) :
                entities[p][i].kind = "AreaProjectile" =>
                   LET before == BeforeExecuteOf(p, i)
                   IN  BlastOf(i, before, EntityExecute(i, before))]_vars

\* -------------------------------------------------- end of a projectile
\* the execute of the projectile at position i takes the board from before
\* to after: it is inactive once it has arrived at its target position,
\* whether it found the target active (and damaged it) or gone, and once
\* its elapsed time has reached max_duration; it damages nothing but its
\* target, by its damage, and is inactive after that
ProjectileEnd(i, before, after) ==
    (before.ents[i].kind = "Projectile" /\ before.ents[i].active) =>
       /\ arrived(after.ents[i]) => ~after.ents[i].active
       /\ after.ents[i].elapsed_time >= MaxDuration => ~after.ents[i].active
       /\ \A k \in Struck(before, after) :
             /\ before.ents[i].target = Some(before.ents[k].entity_id)
             /\ after.ents[k].life
                   = before.ents[k].life - before.ents[i].damage
             /\ ~after.ents[i].active

\* C35: a Projectile becomes inactive when it delivers its damage to its
\* target, when its target is no longer active by the time it arrives at
\* the target position, and when its elapsed time reaches max_duration; it
\* delivers damage at most once and only to its original target
C35_ProjectileEnds ==
    [][\A p \in Peers :
          total_ticks'[p] = total_ticks[p] + 1 =>
             \A i \in 1..Len(entities[p]) :
                entities[p][i].kind = "Projectile" =>
                   LET before == BeforeExecuteOf(p, i)
                   IN  ProjectileEnd(i, before, EntityExecute(i, before))]_vars

\* ------------------------------------------------------ troop movement
\* the cells next to the cell of e, on the 18 x 32 grid and free of
\* obstacles
ValidCells(e) ==
    {c \in ((e.x \div PosScale - 1)..(e.x \div PosScale + 1))
              \X ((e.y \div PosScale - 1)..(e.y \div PosScale + 1)) :
        /\ c # <<e.x \div PosScale, e.y \div PosScale>>
        /\ c[1] \in 0..(BoardWidth - 1)
        /\ c[2] \in 0..(BoardHeight - 1)
        /\ c \notin setup_obstacles}

\* the centre of the cell c
CellCentre(c) ==
    <<c[1] * PosScale + PosScale \div 2, c[2] * PosScale + PosScale \div 2>>

\* the valid cells whose centre is at the least distance from the target
BestCells(e, target) ==
    {c \in ValidCells(e) : \A d \in ValidCells(e) :
        DistPoint2(target, CellCentre(c)) <= DistPoint2(target, CellCentre(d))}

AbsVal(n) == IF n < 0 THEN -n ELSE n

\* from the position of e to that of moved is a step towards the point wp:
\* not longer than speed * tick_time, along the line to wp (to the rounding
\* of each coordinate to a unit), and not beyond wp
Towards(e, moved, wp) ==
    /\ <<moved.x, moved.y>> # <<e.x, e.y>>
    /\ DistPoint2(moved, <<e.x, e.y>>) <= (try_dist(e) + 1) * (try_dist(e) + 1)
    /\ 2 * AbsVal((moved.x - e.x) * (wp[2] - e.y)
                     - (moved.y - e.y) * (wp[1] - e.x))
          <= AbsVal(wp[1] - e.x) + AbsVal(wp[2] - e.y)
    /\ (wp[1] - moved.x) * (wp[1] - e.x) >= 0
    /\ (wp[2] - moved.y) * (wp[2] - e.y) >= 0
    /\ (moved.x - e.x) * (wp[1] - e.x) >= 0
    /\ (moved.y - e.y) * (wp[2] - e.y) >= 0

\* the execute of the Moving troop at position i takes the board from
\* before to after: the troop has stepped towards the centre of a best
\* cell, or has stayed where it was when no cell is valid
MoveOf(i, before, after) ==
    (before.ents[i].type = "troop" /\ before.ents[i].state = "moving"
     /\ before.ents[i].target # Nothing) =>
       IF ValidCells(before.ents[i]) = {}
       THEN /\ after.ents[i].x = before.ents[i].x
            /\ after.ents[i].y = before.ents[i].y
       ELSE \E c \in BestCells(before.ents[i],
                     before.ents[TargetIndex(before.ents[i], before.ents)]) :
               Towards(before.ents[i], after.ents[i], CellCentre(c))

\* C36: a Moving troop steps towards the centre of one of the 8 cells
\* adjacent to its current integer cell that lies inside the 18 x 32 grid
\* and is not an obstacle, the one that minimises the distance to the
\* target; it never overshoots that waypoint, and when no such cell exists
\* its position is unchanged
C36_StepToBestNeighbour ==
    [][\A p \in Peers :
          total_ticks'[p] = total_ticks[p] + 1 =>
             \A i \in 1..Len(entities[p]) :
                entities[p][i].type = "troop" =>
                   LET before == BeforeExecuteOf(p, i)
                   IN  MoveOf(i, before, EntityExecute(i, before))]_vars

\* a Moving troop stands at the river: the cell next to it that is nearest
\* to its target is an obstacle, and the tick before it took a step
C36_Witness ==
    \E p \in Peers : \E i, k \in 1..Len(entities[p]) :
        /\ entities[p][i].type = "troop"
        /\ entities[p][i].state = "moving"
        /\ entities[p][i].target = Some(entities[p][k].entity_id)
        /\ total_ticks[p] > CombatStartTicks + 1
        /\ entities[p][i].x % PosScale # PosScale \div 2
        /\ \E c \in setup_obstacles :
              /\ AbsVal(c[1] - entities[p][i].x \div PosScale) <= 1
              /\ AbsVal(c[2] - entities[p][i].y \div PosScale) <= 1
              /\ \A d \in ValidCells(entities[p][i]) :
                    DistPoint2(entities[p][k], CellCentre(c))
                       < DistPoint2(entities[p][k], CellCentre(d))

\* --------------------------------- specification: the rollback system
RollbackWarmup == 210     \* real time of the earliest placement
MaxRollbackTime == 220    \* real time runs up to MaxRollbackTime units
MaxRollbackEvents == 2    \* events added to the timeline
MaxRollbackLag == 4       \* real time a frame may come late by
FirstTroopId == 6         \* get_next_entity_id after the six towers

\* how far behind real time the timestamp of an added event lies: a local
\* placement (0) and two network latencies
RollbackLatencies == {0, 7, 15}

\* the prototype as constructed; its game runs RollbackWarmup units before
\* anything is placed, so that the ring of checkpoints is full by then
InitRollback ==
    /\ now = 0
    /\ requestLeg = 0
    /\ replyLeg = 0
    /\ rollback_system = RollbackSystem
    /\ tries = [p \in Peers |-> IF p = Host THEN 1 ELSE 0]
    /\ exit_code = [p \in Peers |-> Nothing]
    /\ sorting = [p \in Peers |-> Nothing]
    /\ connected = [p \in Peers |-> p = Host]
    /\ time_offset = [p \in Peers |-> 0]
    /\ game_start_time = [p \in Peers |-> IF p = Host THEN Epoch ELSE 0]
    /\ total_ticks = [p \in Peers |-> 0]
    /\ simulation_time = [p \in Peers |-> 0]
    /\ events = [p \in Peers |-> <<>>]
    /\ entities = [p \in Peers |-> setup_towers]
    /\ next_entity_id = [p \in Peers |-> Len(setup_towers)]
    /\ selected_card = [p \in Peers |-> Nothing]
    /\ elixir = [p \in Peers |-> IF p = Host THEN InitialElixir * ElixirScale ELSE 0]
    /\ elixir_used = [p \in Peers |-> 0]
    /\ elixir_wasted = [p \in Peers |-> 0]
    /\ last_update_time = [p \in Peers |-> 0]
    /\ deck = CHOOSE dk \in DeckAssignments : TRUE
    /\ loop_started = [p \in Peers |-> FALSE]
    /\ frame_time = [p \in Peers |-> -1]
    /\ network = {}
    /\ applied = [p \in Peers |-> <<>>]
    /\ received = [p \in Peers |-> <<>>]
    /\ last_click = NoClick
    /\ nplaced = 0

\* real time passes, by one unit
RollbackTime ==
    /\ now < MaxRollbackTime
    /\ now - rollback_system.state.simulation_time < MaxRollbackLag
    /\ now' = now + 1
    /\ UNCHANGED <<requestLeg, replyLeg, rollback_system, tries, exit_code,
                   sorting, connected, time_offset,
                   game_start_time, total_ticks, simulation_time, events,
                   entities, next_entity_id, selected_card, elixir, elixir_used,
                   elixir_wasted, last_update_time, deck, loop_started,
                   frame_time, network, applied, received, last_click, nplaced>>

\* a frame of the prototype's main loop: update_simulation
UpdateSimulation ==
    /\ now > rollback_system.state.simulation_time
    /\ rollback_system' = update_simulation(rollback_system, now)
    /\ UNCHANGED <<now, requestLeg, replyLeg, tries, exit_code,
                   sorting, connected, time_offset,
                   game_start_time, total_ticks, simulation_time, events,
                   entities, next_entity_id, selected_card, elixir, elixir_used,
                   elixir_wasted, last_update_time, deck, loop_started,
                   frame_time, network, applied, received, last_click, nplaced>>

\* a placement, local or received from the peer latency units after it was
\* made: add_event of an event with that timestamp and a new entity_id
AddEvent(latency) ==
    /\ now >= RollbackWarmup
    /\ Len(rollback_system.timeline) < MaxRollbackEvents
    /\ rollback_system' = RollbackSystem_add_event(rollback_system,
          [timestamp |-> now - latency,
           entity_id |-> FirstTroopId + Len(rollback_system.timeline)])
    /\ UNCHANGED <<now, requestLeg, replyLeg, tries, exit_code,
                   sorting, connected, time_offset,
                   game_start_time, total_ticks, simulation_time, events,
                   entities, next_entity_id, selected_card, elixir, elixir_used,
                   elixir_wasted, last_update_time, deck, loop_started,
                   frame_time, network, applied, received, last_click, nplaced>>

NextRollback ==
    \/ RollbackTime
    \/ UpdateSimulation
    \/ \E latency \in RollbackLatencies : AddEvent(latency)

SpecRollback == InitRollback /\ [][NextRollback]_vars

\* --------------------------------------------------- rollback contract
\* the checkpoints of timestamp <= timestamp that the ring retains
Retained(sys, timestamp) ==
    {i \in 1..Len(sys.checkpoints) :
        sys.checkpoints[i].timestamp <= timestamp}

\* the event of entity_id id is on the timeline
OnTimeline(sys, id) ==
    \E k \in 1..Len(sys.timeline) : sys.timeline[k].entity_id = id

\* the board holds the entity id
Placed(sys, id) ==
    \E k \in 1..Len(sys.state.entities) :
        sys.state.entities[k].entity_id = id

\* add_event of an event of the given timestamp takes the system from sys
\* to after: the event is on the timeline, in timestamp order, and when it
\* is late and the ring retains a checkpoint of timestamp <= its own, the
\* state is that of the retained checkpoint of the greatest such timestamp
RolledBack(sys, after, timestamp) ==
    /\ \A i, j \in 1..Len(after.timeline) :
          i < j => after.timeline[i].timestamp <= after.timeline[j].timestamp
    /\ (timestamp < sys.state.simulation_time /\ Retained(sys, timestamp) # {})
          => \E i \in Retained(sys, timestamp) :
                /\ \A j \in Retained(sys, timestamp) :
                      sys.checkpoints[j].timestamp <= sys.checkpoints[i].timestamp
                /\ after.state = sys.checkpoints[i].state
                /\ after.state.simulation_time <= timestamp

\* C37 (state part): adding an event whose timestamp is earlier than the
\* current simulation time restores the state to the retained checkpoint
\* with the greatest timestamp <= the event's timestamp
C37_RestoresGreatestCheckpoint ==
    [][Len(rollback_system'.timeline) = Len(rollback_system.timeline) + 1
          => \A k \in 1..Len(rollback_system'.timeline) :
                ~OnTimeline(rollback_system,
                            rollback_system'.timeline[k].entity_id)
                   => RolledBack(rollback_system, rollback_system',
                                 rollback_system'.timeline[k].timestamp)]_vars

\* update_simulation takes the system from sys to after: the simulation
\* has advanced, and the events whose entities stand on the board are those
\* of timestamp <= the new simulation time, so that an event is never
\* applied before one of an earlier timestamp
Readvanced(sys, after) ==
    /\ after.state.simulation_time > sys.state.simulation_time
    /\ \A k \in 1..Len(after.timeline) :
          Placed(after, after.timeline[k].entity_id)
             <=> after.timeline[k].timestamp <= after.state.simulation_time

\* C37 (advance part): each update_simulation after the restore advances
\* the simulation and leaves every event up to the new simulation time
\* applied, in timestamp order
C37_ReadvancesAndApplies ==
    [][(/\ rollback_system'.timeline = rollback_system.timeline
        /\ rollback_system' # rollback_system)
          => Readvanced(rollback_system, rollback_system')]_vars

RECURSIVE Advanced(_, _, _)
Advanced(state, timeline, n) ==
    IF n = 0 THEN state
    ELSE IF n = 1 THEN advance_step(state, timeline)
    ELSE CHOOSE after \in {Advanced(half, timeline, n - n \div 2) :
                              half \in {Advanced(state, timeline, n \div 2)}} :
            TRUE

\* the state after n steps of a simulation that starts from the initial
\* board and knows the whole timeline from the start
Reference(timeline, n) == Advanced(ClashRoyaleBoard, timeline, n)

\* the simulation has caught up with real time
CaughtUp(sys, real_time) == sys.state.simulation_time >= real_time

\* C38: after any sequence of add_event calls (late events that each
\* trigger a rollback included) and update_simulation steps, once the
\* simulation has caught up to time T its state equals the state obtained
\* by simulating from the initial state to T with every timeline event
\* applied at its own timestamp
C38_ConvergesToReference ==
    CaughtUp(rollback_system, now)
       => rollback_system.state
             = Reference(rollback_system.timeline,
                         rollback_system.state.simulation_time \div StepDuration)

\* ------------------------------------------ local placements are applied
\* the events of peer p's timeline, those an unfinished sort holds included
OnLocalTimeline(p) ==
    IF sorting[p] = Nothing THEN events[p] ELSE events[p] \o The(sorting[p])

\* the step is an accepted placement by peer p: handle_board_click has
\* created the event numbered nplaced' and add_event has put it on p's
\* timeline
LocalPlacement(p) ==
    /\ nplaced' = nplaced + 1
    /\ \E i \in DOMAIN events'[p] : events'[p][i].uid = <<p, nplaced'>>

\* C39 (first part): every event created by a local placement has, at the
\* moment it is added to the local timeline, an aparition_time strictly
\* greater than the local simulation_time
C39_AddedAhead ==
    [][\A p \in Peers : LocalPlacement(p) =>
          \A i \in DOMAIN events'[p] :
              events'[p][i].uid = <<p, nplaced'>> =>
                 /\ events'[p][i].aparition_time
                       = get_synced_time(p) - game_start_time[p] + EventDelay
                 /\ events'[p][i].aparition_time > simulation_time'[p]]_vars

\* C39 (second part): a locally placed event is applied to the local board
\* by the ticks that take the simulation past its aparition_time
C39_AppliedOncePassed ==
    \A p \in Peers : \A i \in DOMAIN OnLocalTimeline(p) :
        (/\ OnLocalTimeline(p)[i].uid[1] = p
         /\ simulation_time[p] > OnLocalTimeline(p)[i].aparition_time)
           => \E j \in DOMAIN applied[p] :
                 applied[p][j].uid = OnLocalTimeline(p)[i].uid

\* C39: every event created by a local placement has, at the moment it is
\* added to the local timeline, an aparition_time (origin time relative to
\* game start + 0.2) strictly greater than the local simulation_time; hence,
\* as the ticks are executed, every locally placed event is applied to the
\* local board
C39_LocalEventApplied == C39_AddedAhead /\ []C39_AppliedOncePassed

\* --------------------------------------- specification: sends that fail
\* Clash.handle_inputs on the click that waits in the queue, with a
\* send_data that returns False
HandlePendingClickUnsent ==
    /\ last_click.outcome = "pending"
    /\ handle_inputs(last_click.player, <<BoardClick(last_click.cell)>>, Unsent)

NextSendFails ==
    \/ HandlePendingClick
    \/ HandlePendingClickUnsent

\* a click on a free cell of the own half, handled with a send_data that
\* succeeds or fails
SpecSendFails == InitCard /\ [][NextSendFails]_vars

\* C40: an accepted local placement adds its event to the local timeline
\* only if the event was actually sent to the peer: when send_data fails
\* the event is not added locally and no elixir is charged
C40_AddedOnlyIfSent ==
    [][\A p \in Peers :
          (LocalPlacement(p) \/ elixir'[p] # elixir[p]
              \/ elixir_used'[p] # elixir_used[p])
             => \E d \in network' \ network :
                   /\ d.to = Other(p)
                   /\ d.data.uid = <<p, nplaced'>>]_vars

=============================================================================
